---- MODULE Spec2Model ----
(***************************************************************************)
(* A model of the cooperative concurrency core of samlior/framework:       *)
(*   - Limited  (packages/utils/src/limited.ts): token pool + wait queue   *)
(*   - JSONRPC  (utils jsonrpc): request/response correlator               *)
(*   - Scheduler (packages/utils/src/helper.ts): abort tree + task driver  *)
(*   - the inbound dispatcher of the duplex peer and of the bus node       *)
(* Each subsystem has its own specification over the shared variables.     *)
(***************************************************************************)
EXTENDS Integers, Sequences, FiniteSets, TLC

VARIABLES
  \* ---- Limited (the gate) ----
  maxTokens,    \* Limited.maxTokens
  maxQueued,    \* Limited.maxQueued
  idle,         \* Limited.idle: list of idle tokens
  queue,        \* Limited.queue: list of queued requests
  limitedCount, \* Limited.counter.count
  tokenStatus,  \* Token.status of every token
  held,         \* tokens some caller currently holds (got and not yet put back)
  nextReq,      \* number of Request nodes created so far
  reqStatus,    \* RequestValue.status
  reqList,      \* Node.list of the request node
  reqPromise,   \* the getToken promise of the request
  reqSettles,   \* calls of resolve/reject made on the request
  reqRemoved,   \* times the request was taken out of the queue
  gateOp,       \* the last call on the gate and what it returned
  \* ---- JSONRPC (the correlator) ----
  autoId,       \* JSONRPC.autoId
  reqs,         \* JSONRPC.reqs: id -> the request whose ReqDetail is stored (0: none)
  rpcCount,     \* JSONRPC.counter.count
  rpcN,         \* number of request() calls made so far
  rpcId,        \* the id genId() gave to each request
  rpcPromise,   \* the getResult promise of each request
  rpcTimer,     \* the timeout handle of each request
  rpcSettles,   \* calls of resolve/reject made on each request
  rpcHow,       \* which operation settled each request
  rpcRet,       \* what the last call on the correlator returned
  \* ---- Scheduler (the abort tree) and the tasks exec drives ----
  ownReason,    \* Scheduler._reason of every node
  destroyed,    \* Scheduler._destroyed of every node
  listeners,    \* Events.listeners.get("abort") of every node: the subscribed children
  schedCount,   \* Scheduler.counter.count of every node
  races,        \* Scheduler.races of every node: the tasks whose resolver is listed
  tPc,          \* where each exec call stands: "idle", "gen" (inside generator.next), "race"
  tNode,        \* the scheduler each exec call runs on
  tError,       \* exec's local variable error
  tResult,      \* exec's local variable result
  tArg,         \* the {ok, error, result} last passed to generator.next
  tRace,        \* the taskFinishedOrAborted promise of the current race wait
  tFut,         \* the future wrapped by the current RaceRequest
  resumedBelow, \* history: the last call on the tree was resume() under an aborted ancestor
  \* ---- inbound dispatch (SocketIOClient.handleJSONRPC, SocketIOServerSide.handle) ----
  dPc,          \* each inbound call in progress: "none", "ready", "queued", "handler"
  dId,          \* the id of the frame that started the call, NoId for a notify
  dTok,         \* the gate token the call holds, 0 for none
  dReq,         \* the gate request the call waits on, 0 for none
  sentNow,      \* the frames the last dispatcher step sent to the sender
  dispOp,       \* what the last dispatcher step was
  \* ---- the duplex peer (SocketIOClient) as a whole ----
  peerOp,           \* the last call on the peer and the events it emitted
  sinceDisconnect,   \* history: what happened since the last disconnect event
  \* ---- HTTPServer.handle, one slot per request ----
  hPc,          \* "idle", "running" (exec in progress), "done" (finally has run)
  hOpen,        \* req.socket has not emitted "close"
  hListen,      \* the abort callback is registered on req.socket
  hWritten,     \* what res.json has sent for the request
  hEarly,       \* history: the socket closed while the request was in progress
  hOp,          \* the last step: [op, h]
  stopped,      \* HTTPServer._stopped
  \* ---- a caller awaiting Scheduler.wait() of the root ----
  drain,        \* "none", "waiting", "resolved" (by a decrease), "immediate"
  \* ---- the last call made from outside, for calls that return or throw ----
  callIn,       \* its arguments
  callOut,      \* what it returned or threw
  \* ---- SocketIOServer: the clients map and the peers it has created ----
  clients,      \* socket id -> the peer indexed under it, 0 for none
  ixN,          \* how many connections have been handled; peer p is the p-th
  ixId,         \* peer -> its socket id
  ixState,      \* peer -> "none", "connected", "closing" (close() called), "disconnected"
  ixReason,     \* peer -> the reason of its scheduler
  ixListening,  \* peer -> its "jsonrpc" listener is attached
  ixOp,         \* the last step: [op, peer, old, steps]
  \* ---- SocketIOServerSide: one node of the bus ----
  busName,      \* this.name, "none" before the constructor has run
  dFrom,        \* call -> the from of the message that started it
  posted,       \* the _message calls of the last step: [to, frames]
  \* ---- one Counter on its own ----
  cCount,       \* Counter._count
  cPromise,     \* Counter.promise: "none" (undefined) or "pending"
  cWaits,       \* caller -> the promise wait() gave it: "none", "pending", "resolved"
  cOp,          \* the last call: [op, i, threw]
  \* ---- one Channel and its single consumer ----
  chAborted,    \* Channel.aborted
  chArray,      \* Channel._array
  chWaiting,    \* Channel.resolve / reject are set
  chPromise,    \* the promise the consumer's last next() returned
  chOp,         \* the last call: [op, ret]
  \* ---- SocketIOClient.limitedRun, one run per task ----
  lrPc,         \* "idle", "start", "queued", "ready", "working", "throw"
  lrTok,        \* the token the run holds, 0 for none
  lrReq,        \* the request get() queued for the run, 0 for none
  \* ---- the callers of one Limited ----
  tokOwner,     \* per token: the caller get() or getToken gave it to, 0 for none
  reqOwner,     \* per request: the caller get() made it for
  tokSeen,      \* per token: the callers that were given it at some time
  putBy         \* the last put: [by, tok, holder]

gateVars == <<maxTokens, maxQueued, idle, queue, limitedCount, tokenStatus, held,
              nextReq, reqStatus, reqList, reqPromise, reqSettles, reqRemoved, gateOp>>

rpcVars == <<autoId, reqs, rpcCount, rpcN, rpcId, rpcPromise, rpcTimer, rpcSettles,
             rpcHow, rpcRet>>

schedVars == <<ownReason, destroyed, listeners, schedCount, races,
               tPc, tNode, tError, tResult, tArg, tRace, tFut, resumedBelow>>

dispVars == <<dPc, dId, dTok, dReq, sentNow, dispOp>>

peerVars == <<peerOp, sinceDisconnect>>

httpVars == <<hPc, hOpen, hListen, hWritten, hEarly, hOp, stopped>>

drainVars == <<drain>>

callVars == <<callIn, callOut>>
indexVars == <<clients, ixN, ixId, ixState, ixReason, ixListening, ixOp>>
busVars == <<busName, dFrom, posted>>
counterVars == <<cCount, cPromise, cWaits, cOp>>
chanVars == <<chAborted, chArray, chWaiting, chPromise, chOp>>
runVars == <<lrPc, lrTok, lrReq>>
ownVars == <<tokOwner, reqOwner, tokSeen, putBy>>

vars == <<gateVars, rpcVars, schedVars, dispVars, peerVars, httpVars, drainVars, callVars, indexVars, busVars, counterVars, chanVars, runVars, ownVars>>

\* ------------------------------------------------------------------ bounds
MaxTokens == 1
MaxQueuedBound == 2
MaxRequests == 3
MaxRpc == 3
\* Number.MIN_SAFE_INTEGER and Number.MAX_SAFE_INTEGER, scaled down to a range that
\* stays wider than the number of requests that can be outstanding.
MaxSafeInteger == 2
MaxCalls == 1
MaxPeers == 4
MaxCount == 3
MaxChannel == 3
MinSafeInteger == -MaxSafeInteger

\* ------------------------------------------------------------------ values
Undefined == "undefined"

Pending == [state |-> "pending", val |-> Undefined]

\* Promise resolve / reject: only the first call settles the promise.
SettleDrop(p, state, val) == p

Settle(p, state, val) ==
  IF p.state = "pending" THEN [state |-> state, val |-> val] ELSE p

Bump(n) == IF n < 2 THEN n + 1 ELSE n

\* JavaScript truthiness of the values the model uses: "0" stands for the number 0,
\* "false" for the boolean and "null" for null.
Truthy(v) == v \notin {Undefined, "0", "", "false", "null"}

\* ------------------------------------------------------------------ Counter
CounterIncrease(count, i) == count + i

CounterDecreaseNoop(count, i) == count

CounterDecrease(count, i) == IF i > count THEN 0 ELSE count - i

InSeq(x, list) == \E i \in 1 .. Len(list) : list[i] = x

Occurrences(x, list) == Cardinality({i \in 1 .. Len(list) : list[i] = x})

\* yallist removeNode on a sequence of node ids
RemoveNode(list, x) == SelectSeq(list, LAMBDA y : y # x)

\* ------------------------------------------------------------------ Limited
TokenIds == 1 .. MaxTokens
RequestIds == 1 .. MaxRequests
CancelReasons == {Undefined, "c1"}

parallels == limitedCount
queued == Len(queue)
available == maxQueued - queued

GateInit ==
  /\ maxTokens \in 0 .. MaxTokens
  /\ maxQueued \in 0 .. MaxQueuedBound
  /\ idle = [i \in 1 .. maxTokens |-> i]
  /\ queue = <<>>
  /\ limitedCount = 0
  /\ tokenStatus = [t \in TokenIds |-> "Idle"]
  /\ held = {}
  /\ nextReq = 0
  /\ reqStatus = [r \in RequestIds |-> "none"]
  /\ reqList = [r \in RequestIds |-> "none"]
  /\ reqPromise = [r \in RequestIds |-> Pending]
  /\ reqSettles = [r \in RequestIds |-> 0]
  /\ reqRemoved = [r \in RequestIds |-> 0]
  /\ gateOp = [op |-> "new", ret |-> "ok", tok |-> 0, req |-> 0, reason |-> Undefined]

\* Limited.get, first branch: an idle token is handed out at once.
GetToken ==
  /\ Len(idle) > 0
  /\ LET token == Head(idle) IN
       /\ idle' = Tail(idle)
       /\ tokenStatus' = [tokenStatus EXCEPT ![token] = "Stopped"]
       /\ limitedCount' = CounterIncrease(limitedCount, 1)
       /\ held' = held \cup {token}
       /\ gateOp' = [op |-> "get", ret |-> "token", tok |-> token, req |-> 0, reason |-> Undefined]
  /\ UNCHANGED <<maxTokens, maxQueued, queue, nextReq, reqStatus, reqList,
                 reqPromise, reqSettles, reqRemoved>>

\* Limited.get, second branch with the capacity test off by one.
GetQueuedOffByOne ==
  /\ Len(idle) = 0
  /\ Len(queue) <= maxQueued
  /\ nextReq < MaxRequests
  /\ LET request == nextReq + 1 IN
       /\ nextReq' = request
       /\ reqStatus' = [reqStatus EXCEPT ![request] = "Queued"]
       /\ reqList' = [reqList EXCEPT ![request] = "queue"]
       /\ queue' = Append(queue, request)
       /\ gateOp' = [op |-> "get", ret |-> "queued", tok |-> 0, req |-> request, reason |-> Undefined]
  /\ UNCHANGED <<maxTokens, maxQueued, idle, limitedCount, tokenStatus, held,
                 reqPromise, reqSettles, reqRemoved>>

\* Limited.get, second branch: the request is queued.
GetQueued ==
  /\ Len(idle) = 0
  /\ Len(queue) + 1 <= maxQueued
  /\ nextReq < MaxRequests
  /\ LET request == nextReq + 1 IN
       /\ nextReq' = request
       /\ reqStatus' = [reqStatus EXCEPT ![request] = "Queued"]
       /\ reqList' = [reqList EXCEPT ![request] = "queue"]
       /\ queue' = Append(queue, request)
       /\ gateOp' = [op |-> "get", ret |-> "queued", tok |-> 0, req |-> request, reason |-> Undefined]
  /\ UNCHANGED <<maxTokens, maxQueued, idle, limitedCount, tokenStatus, held,
                 reqPromise, reqSettles, reqRemoved>>

\* Limited.get, last branch: throw new Error("too many queued").
GetThrow ==
  /\ Len(idle) = 0
  /\ ~(Len(queue) + 1 <= maxQueued)
  /\ gateOp' = [op |-> "get", ret |-> "too many queued", tok |-> 0, req |-> 0, reason |-> Undefined]
  /\ UNCHANGED <<maxTokens, maxQueued, idle, queue, limitedCount, tokenStatus, held,
                 nextReq, reqStatus, reqList, reqPromise, reqSettles, reqRemoved>>

Get == GetToken \/ GetQueued \/ GetThrow

\* Token.invoke / invoke2: Stopped -> Working while the task runs, then Stopped.
InvokeBegin(token) ==
  /\ token \in held
  /\ tokenStatus[token] = "Stopped"
  /\ tokenStatus' = [tokenStatus EXCEPT ![token] = "Working"]
  /\ gateOp' = [op |-> "invoke", ret |-> "ok", tok |-> token, req |-> 0, reason |-> Undefined]
  /\ UNCHANGED <<maxTokens, maxQueued, idle, queue, limitedCount, held,
                 nextReq, reqStatus, reqList, reqPromise, reqSettles, reqRemoved>>

InvokeEnd(token) ==
  /\ token \in held
  /\ tokenStatus[token] = "Working"
  /\ tokenStatus' = [tokenStatus EXCEPT ![token] = "Stopped"]
  /\ gateOp' = [op |-> "invoked", ret |-> "ok", tok |-> token, req |-> 0, reason |-> Undefined]
  /\ UNCHANGED <<maxTokens, maxQueued, idle, queue, limitedCount, held,
                 nextReq, reqStatus, reqList, reqPromise, reqSettles, reqRemoved>>

\* Which queued request Limited.put serves: the head of the queue (queue.shift()).
PutPickLast(q) == q[Len(q)]

PutPick(q) == Head(q)

\* Limited.put, the token is handed to a queued request.
PutGrantCounted(token) ==
  LET request == PutPick(queue) IN
    /\ queue' = RemoveNode(queue, request)
    /\ reqRemoved' = [reqRemoved EXCEPT ![request] = Bump(@)]
    /\ reqStatus' = [reqStatus EXCEPT ![request] = "Finished"]
    /\ reqPromise' = [reqPromise EXCEPT ![request] = Settle(@, "resolved", token)]
    /\ reqSettles' = [reqSettles EXCEPT ![request] = Bump(@)]
    /\ limitedCount' = CounterDecrease(limitedCount, 1)
    /\ gateOp' = [op |-> "put", ret |-> "granted", tok |-> token, req |-> request, reason |-> Undefined]
    /\ UNCHANGED <<maxTokens, maxQueued, idle, tokenStatus, held, nextReq, reqList>>

Grant(token) ==
  LET request == PutPick(queue) IN
    /\ queue' = RemoveNode(queue, request)
    /\ reqRemoved' = [reqRemoved EXCEPT ![request] = Bump(@)]
    /\ reqStatus' = [reqStatus EXCEPT ![request] = "Finished"]
    /\ reqPromise' = [reqPromise EXCEPT ![request] = Settle(@, "resolved", token)]
    /\ reqSettles' = [reqSettles EXCEPT ![request] = Bump(@)]
    /\ gateOp' = [op |-> "put", ret |-> "granted", tok |-> token, req |-> request, reason |-> Undefined]
    /\ UNCHANGED <<maxTokens, maxQueued, idle, limitedCount, held, nextReq, reqList>>

PutGrant(token) ==
  /\ Grant(token)
  /\ UNCHANGED tokenStatus

\* Limited.put, no request is queued: the token goes back to the idle list.
PutIdle(token) ==
  /\ tokenStatus' = [tokenStatus EXCEPT ![token] = "Idle"]
  /\ idle' = Append(idle, token)
  /\ limitedCount' = CounterDecrease(limitedCount, 1)
  /\ held' = held \ {token}
  /\ gateOp' = [op |-> "put", ret |-> "idle", tok |-> token, req |-> 0, reason |-> Undefined]
  /\ UNCHANGED <<maxTokens, maxQueued, queue, nextReq, reqStatus, reqList,
                 reqPromise, reqSettles, reqRemoved>>

\* Limited.put: throw new Error("invalid token").
PutThrow(token) ==
  /\ gateOp' = [op |-> "put", ret |-> "invalid token", tok |-> token, req |-> 0, reason |-> Undefined]
  /\ UNCHANGED <<maxTokens, maxQueued, idle, queue, limitedCount, tokenStatus, held,
                 nextReq, reqStatus, reqList, reqPromise, reqSettles, reqRemoved>>

\* A put that pushes the token on the idle list whatever is queued.
PutBodyToIdle(token) ==
  IF tokenStatus[token] # "Stopped" THEN PutThrow(token) ELSE PutIdle(token)

\* Limited.put(token) as the code branches.
PutBody(token) ==
  IF tokenStatus[token] # "Stopped"
  THEN PutThrow(token)
  ELSE IF Len(queue) > 0
       THEN PutGrant(token)
       ELSE PutIdle(token)

\* Limited.put(token), called by the holder of the token.
Put(token) ==
  /\ token \in held
  /\ PutBody(token)

\* Limited.cancel: what the status check lets through.
CancelGuardAny(status) == TRUE

CancelGuard(status) == status = "Queued"

\* Limited.cancel(request, reason) on a request node made by get().
Cancel(request, reason) ==
  /\ request \in 1 .. nextReq
  /\ IF reqList[request] # "queue"
     THEN /\ gateOp' = [op |-> "cancel", ret |-> "invalid request", tok |-> 0,
                        req |-> request, reason |-> reason]
          /\ UNCHANGED <<queue, reqList, reqStatus, reqPromise, reqSettles, reqRemoved>>
     ELSE IF ~CancelGuard(reqStatus[request])
          THEN /\ gateOp' = [op |-> "cancel", ret |-> "noop", tok |-> 0, req |-> request,
                             reason |-> reason]
               /\ UNCHANGED <<queue, reqList, reqStatus, reqPromise, reqSettles,
                              reqRemoved>>
          ELSE /\ queue' = RemoveNode(queue, request)
               /\ reqRemoved' = [reqRemoved EXCEPT ![request] = Bump(@)]
               /\ reqList' = [reqList EXCEPT ![request] = "null"]
               /\ reqStatus' = [reqStatus EXCEPT ![request] = "Canceled"]
               /\ reqPromise' = [reqPromise EXCEPT ![request] = Settle(@, "rejected", reason)]
               /\ reqSettles' = [reqSettles EXCEPT ![request] = Bump(@)]
               /\ gateOp' = [op |-> "cancel", ret |-> "canceled", tok |-> 0,
                             req |-> request, reason |-> reason]
  /\ UNCHANGED <<maxTokens, maxQueued, idle, limitedCount, tokenStatus, held, nextReq>>

GateNext ==
  \/ Get
  \/ \E token \in TokenIds : InvokeBegin(token)
  \/ \E token \in TokenIds : InvokeEnd(token)
  \/ \E token \in TokenIds : Put(token)
  \/ \E request \in RequestIds, reason \in CancelReasons : Cancel(request, reason)

\* ------------------------------------------------------------------ JSONRPC
RpcIds == MinSafeInteger .. MaxSafeInteger
RpcReqs == 1 .. MaxRpc
\* The result / error pairs of the response frames delivered: a result, an error,
\* both, and a result beside a falsy error.
RpcFrames == {[result |-> "v", error |-> Undefined],
              [result |-> Undefined, error |-> "e"],
              [result |-> "v", error |-> "e"],
              [result |-> "v", error |-> "0"]}
RpcAbortReasons == {"r1", "r2"}
RpcTimeoutError == "jsonrpc timeout"

requests == rpcCount

RpcInit ==
  /\ autoId = MinSafeInteger
  /\ reqs = [id \in RpcIds |-> 0]
  /\ rpcCount = 0
  /\ rpcN = 0
  /\ rpcId = [k \in RpcReqs |-> MinSafeInteger]
  /\ rpcPromise = [k \in RpcReqs |-> Pending]
  /\ rpcTimer = [k \in RpcReqs |-> "none"]
  /\ rpcSettles = [k \in RpcReqs |-> 0]
  /\ rpcHow = [k \in RpcReqs |-> "none"]
  /\ rpcRet = FALSE

\* JSONRPC.genId: the value of autoId after the call.
GenIdNext(id) == IF id = MaxSafeInteger THEN MinSafeInteger ELSE id + 1

\* Map.delete / Map.clear on the pending table.
DeleteEntryNoop(table, id) == table

DeleteEntry(table, id) == [table EXCEPT ![id] = 0]

ClearTableNoop(table) == table

ClearTable(table) == [id \in RpcIds |-> 0]

\* clearTimeout on a handle (a request made with timeout -1 has none).
ClearTimeoutNoop(timer) == timer

ClearTimeout(timer) == IF timer = "armed" THEN "cleared" ELSE timer

\* JSONRPC.request(method, params, timeout): timed is timeout # -1.
RpcRequest(timed) ==
  /\ rpcN < MaxRpc
  /\ LET k == rpcN + 1
         id == autoId
     IN
       /\ autoId' = GenIdNext(autoId)
       /\ rpcCount' = CounterIncrease(rpcCount, 1)
       /\ rpcN' = k
       /\ rpcId' = [rpcId EXCEPT ![k] = id]
       /\ reqs' = [reqs EXCEPT ![id] = k]
       /\ rpcTimer' = [rpcTimer EXCEPT ![k] = IF timed THEN "armed" ELSE "none"]
       /\ rpcRet' = TRUE
  /\ UNCHANGED <<rpcPromise, rpcSettles, rpcHow>>

\* The setTimeout callback of request k.
RpcTimerFire(k) ==
  /\ k \in 1 .. rpcN
  /\ rpcTimer[k] = "armed"
  /\ rpcTimer' = [rpcTimer EXCEPT ![k] = "fired"]
  /\ LET id == rpcId[k] IN
       IF reqs[id] # 0
       THEN /\ reqs' = DeleteEntry(reqs, id)
            /\ rpcCount' = CounterDecrease(rpcCount, 1)
            /\ rpcPromise' = [rpcPromise EXCEPT ![k] = Settle(@, "rejected", RpcTimeoutError)]
            /\ rpcSettles' = [rpcSettles EXCEPT ![k] = Bump(@)]
            /\ rpcHow' = [rpcHow EXCEPT ![k] = IF @ = "none" THEN "timeout" ELSE @]
            /\ rpcRet' = TRUE
       ELSE /\ rpcRet' = FALSE
            /\ UNCHANGED <<reqs, rpcCount, rpcPromise, rpcSettles, rpcHow>>
  /\ UNCHANGED <<autoId, rpcN, rpcId>>

\* JSONRPC.response({id, result, error}).
RpcResponse(id, result, error) ==
  /\ UNCHANGED <<autoId, rpcN, rpcId>>
  /\ LET k == reqs[id] IN
       IF k = 0
       THEN /\ rpcRet' = FALSE
            /\ UNCHANGED <<reqs, rpcCount, rpcPromise, rpcTimer, rpcSettles, rpcHow>>
       ELSE /\ rpcCount' = CounterDecrease(rpcCount, 1)
            /\ reqs' = DeleteEntry(reqs, id)
            /\ rpcTimer' = [rpcTimer EXCEPT ![k] = ClearTimeout(@)]
            /\ rpcPromise' = [rpcPromise EXCEPT ![k] =
                                IF Truthy(error) THEN Settle(@, "rejected", error)
                                                 ELSE Settle(@, "resolved", result)]
            /\ rpcSettles' = [rpcSettles EXCEPT ![k] = Bump(@)]
            /\ rpcHow' = [rpcHow EXCEPT ![k] = IF @ = "none" THEN "response" ELSE @]
            /\ rpcRet' = TRUE

\* The requests whose ReqDetail is in the table.
InTable == {k \in RpcReqs : \E id \in RpcIds : reqs[id] = k}

\* JSONRPC.abort(reason): every entry is counted down, its timer cleared and its
\* future rejected; then the table is cleared.
RpcAbort(reason) ==
  /\ LET hit == InTable
         entries == Cardinality({id \in RpcIds : reqs[id] # 0})
     IN
       /\ rpcCount' = CounterDecrease(rpcCount, entries)
       /\ rpcTimer' = [k \in RpcReqs |-> IF k \in hit THEN ClearTimeout(rpcTimer[k])
                                                   ELSE rpcTimer[k]]
       /\ rpcPromise' = [k \in RpcReqs |-> IF k \in hit
                                             THEN Settle(rpcPromise[k], "rejected", reason)
                                             ELSE rpcPromise[k]]
       /\ rpcSettles' = [k \in RpcReqs |-> IF k \in hit THEN Bump(rpcSettles[k])
                                                     ELSE rpcSettles[k]]
       /\ rpcHow' = [k \in RpcReqs |-> IF k \in hit /\ rpcHow[k] = "none" THEN "abort"
                                                                        ELSE rpcHow[k]]
  /\ reqs' = ClearTable(reqs)
  /\ rpcRet' = TRUE
  /\ UNCHANGED <<autoId, rpcN, rpcId>>

\* JSONRPC.request made after earlier requests have settled: the caller's record k
\* is the first one that was never used or whose promise has settled.
FreeRecords == {k \in RpcReqs : k > rpcN \/ rpcPromise[k].state # "pending"}

RpcRequestAgain(timed) ==
  /\ FreeRecords # {}
  /\ LET k == CHOOSE f \in FreeRecords : \A g \in FreeRecords : f <= g
         id == autoId
     IN
       /\ autoId' = GenIdNext(autoId)
       /\ rpcCount' = CounterIncrease(rpcCount, 1)
       /\ rpcN' = IF k > rpcN THEN k ELSE rpcN
       /\ rpcId' = [rpcId EXCEPT ![k] = id]
       /\ reqs' = [reqs EXCEPT ![id] = k]
       /\ rpcPromise' = [rpcPromise EXCEPT ![k] = Pending]
       /\ rpcTimer' = [rpcTimer EXCEPT ![k] = IF timed THEN "armed" ELSE "none"]
       /\ rpcSettles' = [rpcSettles EXCEPT ![k] = 0]
       /\ rpcHow' = [rpcHow EXCEPT ![k] = "none"]
       /\ rpcRet' = TRUE

\* Requests are made, answered and time out for longer than one round of ids.
RpcIdsNext ==
  \/ \E timed \in BOOLEAN : RpcRequestAgain(timed)
  \/ \E k \in RpcReqs : RpcTimerFire(k)
  \/ \E id \in RpcIds : RpcResponse(id, "v", Undefined)

RpcNext ==
  \/ \E timed \in BOOLEAN : RpcRequest(timed)
  \/ \E k \in RpcReqs : RpcTimerFire(k)
  \/ \E id \in RpcIds, f \in RpcFrames : RpcResponse(id, f.result, f.error)
  \/ \E reason \in RpcAbortReasons : RpcAbort(reason)

\* ------------------------------------------------------------------ Scheduler
\* The scheduler tree: node 1 is the root, 2 and 3 are its children, 4 is a child
\* of 2. Parent[n] = 0: no parent.
Nodes == {1, 2, 3, 4}
Parent == <<0, 1, 1, 2>>
Tasks == {1, 2}
Reasons == {"r1", "r2"}
NoArg == [ok |-> FALSE, error |-> "none", result |-> "none"]
NoRace == [state |-> "none", error |-> Undefined, result |-> Undefined, src |-> "none"]
RacePending == [state |-> "pending", error |-> Undefined, result |-> Undefined, src |-> "none"]
\* How the wrapped future of a RaceRequest can settle: [error, result].
FutureOutcomes == {<<Undefined, "v">>, <<Undefined, Undefined>>, <<"e", Undefined>>}

\* An on that pushes the listener twice.
OnTwice(list, listener) == Append(Append(list, listener), listener)

\* Events.on / Events.off on one listener list.
On(list, listener) == Append(list, listener)

\* An off that removes nothing.
OffNothing(list, listener) == list

Off(list, listener) ==
  IF \E i \in 1 .. Len(list) : list[i] = listener
  THEN LET index == CHOOSE i \in 1 .. Len(list) :
                      list[i] = listener /\ \A j \in 1 .. (i - 1) : list[j] # listener
       IN [i \in 1 .. (Len(list) - 1) |-> IF i < index THEN list[i] ELSE list[i + 1]]
  ELSE list

\* A reason getter that does not read through the parent.
reasonOwnOnly(n) == ownReason[n]

\* Scheduler.reason: the own reason, else the parent's.

RECURSIVE reason(_)
reason(n) ==
  IF ownReason[n] = Undefined
  THEN IF Parent[n] = 0 THEN Undefined ELSE reason(Parent[n])
  ELSE ownReason[n]

\* Scheduler.aborted
aborted(n) == reason(n) # Undefined

\* An abort signal that reaches every node of the tree.
SignalledAll(n) == Nodes

\* The nodes whose abortRaces runs when node n emits "abort": n and, through the
\* listener lists, every subscribed descendant.
RECURSIVE Signalled(_)
Signalled(n) ==
  {n} \cup UNION {Signalled(listeners[n][i]) : i \in 1 .. Len(listeners[n])}

\* An increase / decrease that stops at the node itself.
ChainSelf(n) == {n}

\* Scheduler.increase / decrease: the node and, through parent, every ancestor.
RECURSIVE Chain(_)
Chain(n) == IF n = 0 THEN {} ELSE {n} \cup Chain(Parent[n])

\* JavaScript: a ?? b
Nullish(a, b) == IF a = Undefined THEN b ELSE a

\* exec, top of the loop: the argument of generator.next for node n, error e, result r.
NextArg(n, e, r) ==
  [ok |-> ~Truthy(e) /\ ~aborted(n), error |-> Nullish(e, reason(n)), result |-> r]

SchedInit ==
  /\ ownReason = [n \in Nodes |-> Undefined]
  /\ destroyed = [n \in Nodes |-> FALSE]
  /\ listeners = [n \in Nodes |->
                    IF n = 1 THEN <<2, 3>> ELSE IF n = 2 THEN <<4>> ELSE <<>>]
  /\ schedCount = [n \in Nodes |-> 0]
  /\ races = [n \in Nodes |-> <<>>]
  /\ tPc = [t \in Tasks |-> "idle"]
  /\ tNode = [t \in Tasks |-> 1]
  /\ tError = [t \in Tasks |-> Undefined]
  /\ tResult = [t \in Tasks |-> Undefined]
  /\ tArg = [t \in Tasks |-> NoArg]
  /\ tRace = [t \in Tasks |-> NoRace]
  /\ tFut = [t \in Tasks |-> "none"]
  /\ resumedBelow = FALSE

taskVars == <<tPc, tNode, tError, tResult, tArg, tFut>>

\* Scheduler.abortRaces on every node of the set: resolve([undefined, undefined]).
AbortRaces(nodes) ==
  tRace' = [t \in Tasks |->
              IF \E n \in nodes : InSeq(t, races[n])
              THEN IF tRace[t].state = "pending"
                   THEN [state |-> "resolved", error |-> Undefined, result |-> Undefined,
                         src |-> "abort"]
                   ELSE tRace[t]
              ELSE tRace[t]]

\* Scheduler.abort(reason), reason not undefined.
SchedAbort(n, r) ==
  /\ ownReason' = [ownReason EXCEPT ![n] = r]
  /\ AbortRaces(Signalled(n))
  /\ resumedBelow' = FALSE
  /\ UNCHANGED <<destroyed, listeners, schedCount, races, taskVars>>

\* Scheduler.resume()
SchedResume(n) ==
  /\ ownReason' = [ownReason EXCEPT ![n] = Undefined]
  /\ resumedBelow' = (Parent[n] # 0 /\ aborted(Parent[n]))
  /\ UNCHANGED <<destroyed, listeners, schedCount, races, tRace, taskVars>>

\* Scheduler.destroy()
SchedDestroy(n) ==
  /\ destroyed' = [destroyed EXCEPT ![n] = TRUE]
  /\ listeners' = IF Parent[n] = 0 THEN listeners
                  ELSE [listeners EXCEPT ![Parent[n]] = Off(@, n)]
  /\ resumedBelow' = FALSE
  /\ UNCHANGED <<ownReason, schedCount, races, tRace, taskVars>>

\* Scheduler.recover()
SchedRecover(n) ==
  /\ destroyed[n]
  /\ destroyed' = [destroyed EXCEPT ![n] = FALSE]
  /\ listeners' = IF Parent[n] = 0 THEN listeners
                  ELSE [listeners EXCEPT ![Parent[n]] = On(@, n)]
  /\ resumedBelow' = FALSE
  /\ UNCHANGED <<ownReason, schedCount, races, tRace, taskVars>>

\* Scheduler.exec(generator) up to the first generator.next call.
TaskStart(t, n) ==
  /\ tPc[t] = "idle"
  /\ schedCount' = [m \in Nodes |-> IF m \in Chain(n) THEN CounterIncrease(schedCount[m], 1)
                                                       ELSE schedCount[m]]
  /\ tNode' = [tNode EXCEPT ![t] = n]
  /\ tError' = [tError EXCEPT ![t] = Undefined]
  /\ tResult' = [tResult EXCEPT ![t] = Undefined]
  /\ tArg' = [tArg EXCEPT ![t] = NextArg(n, Undefined, Undefined)]
  /\ tPc' = [tPc EXCEPT ![t] = "gen"]
  /\ UNCHANGED <<ownReason, destroyed, listeners, races, tRace, tFut>>
  /\ UNCHANGED resumedBelow

\* The generator yields a value that is no RaceRequest: it is fed back at once.
GenYieldPlain(t, value) ==
  /\ tPc[t] = "gen"
  /\ tError' = [tError EXCEPT ![t] = Undefined]
  /\ tResult' = [tResult EXCEPT ![t] = value]
  /\ tArg' = [tArg EXCEPT ![t] = NextArg(tNode[t], Undefined, value)]
  /\ UNCHANGED <<ownReason, destroyed, listeners, schedCount, races, tPc, tNode, tRace, tFut>>
  /\ UNCHANGED resumedBelow

\* The generator yields a RaceRequest: while aborted the loop continues at once with
\* the error and result it already holds; otherwise the race wait is registered.
GenYieldRace(t) ==
  /\ tPc[t] = "gen"
  /\ IF aborted(tNode[t])
     THEN /\ tArg' = [tArg EXCEPT ![t] = NextArg(tNode[t], tError[t], tResult[t])]
          /\ UNCHANGED <<races, tPc, tRace, tFut>>
     ELSE /\ races' = [races EXCEPT ![tNode[t]] = Append(@, t)]
          /\ tRace' = [tRace EXCEPT ![t] = RacePending]
          /\ tFut' = [tFut EXCEPT ![t] = "pending"]
          /\ tPc' = [tPc EXCEPT ![t] = "race"]
          /\ tArg' = [tArg EXCEPT ![t] = NoArg]
  /\ UNCHANGED <<ownReason, destroyed, listeners, schedCount, tNode, tError, tResult>>
  /\ UNCHANGED resumedBelow

\* The wrapped future settles: its then/catch callback calls resolve.
FutureSettle(t, outcome) ==
  /\ tPc[t] = "race"
  /\ tFut[t] = "pending"
  /\ tFut' = [tFut EXCEPT ![t] = "settled"]
  /\ tRace' = [tRace EXCEPT ![t] =
                 IF @.state = "pending"
                 THEN [state |-> "resolved", error |-> outcome[1], result |-> outcome[2],
                       src |-> "future"]
                 ELSE @]
  /\ UNCHANGED <<ownReason, destroyed, listeners, schedCount, races, tPc, tNode, tError,
                 tResult, tArg>>
  /\ UNCHANGED resumedBelow

\* exec continues after await taskFinishedOrAborted: the wait is unlisted and the
\* generator is re-entered.
TaskWake(t) ==
  /\ tPc[t] = "race"
  /\ tRace[t].state = "resolved"
  /\ tError' = [tError EXCEPT ![t] = tRace[t].error]
  /\ tResult' = [tResult EXCEPT ![t] = tRace[t].result]
  /\ races' = [races EXCEPT ![tNode[t]] = RemoveNode(@, t)]
  /\ tArg' = [tArg EXCEPT ![t] = NextArg(tNode[t], tRace[t].error, tRace[t].result)]
  /\ tRace' = [tRace EXCEPT ![t] = NoRace]
  /\ tFut' = [tFut EXCEPT ![t] = "none"]
  /\ tPc' = [tPc EXCEPT ![t] = "gen"]
  /\ UNCHANGED <<ownReason, destroyed, listeners, schedCount, tNode>>
  /\ UNCHANGED resumedBelow

\* exec ends: finally { this.decrease() } on the node and its ancestors.
ExecEnd(t) ==
  /\ tPc[t] = "gen"
  /\ schedCount' = [m \in Nodes |-> IF m \in Chain(tNode[t])
                                     THEN CounterDecrease(schedCount[m], 1)
                                     ELSE schedCount[m]]
  /\ tPc' = [tPc EXCEPT ![t] = "idle"]
  /\ tArg' = [tArg EXCEPT ![t] = NoArg]
  /\ tError' = [tError EXCEPT ![t] = Undefined]
  /\ tResult' = [tResult EXCEPT ![t] = Undefined]
  /\ UNCHANGED <<ownReason, races, tNode, tRace, tFut>>
  /\ UNCHANGED resumedBelow

\* The generator returns or throws: exec ends, finally { this.decrease() }.
GenDone(t) ==
  /\ ExecEnd(t)
  /\ UNCHANGED <<destroyed, listeners>>

\* run(promise): the generator reaches "yield await promise" and awaits the future
\* itself; exec is inside await generator.next(...) and holds no race wait.
GenRunAwait(t) ==
  /\ tPc[t] = "gen"
  /\ tPc' = [tPc EXCEPT ![t] = "run"]
  /\ tFut' = [tFut EXCEPT ![t] = "pending"]
  /\ UNCHANGED <<ownReason, destroyed, listeners, schedCount, races, tNode, tError,
                 tResult, tArg, tRace>>
  /\ UNCHANGED resumedBelow

\* The awaited future settles. Fulfilled, its value is yielded as a plain value and
\* fed back at once; rejected, the await throws inside the generator, which runs on
\* without having been resumed by exec.
GenRunSettle(t, outcome) ==
  /\ tPc[t] = "run"
  /\ tFut[t] = "pending"
  /\ tFut' = [tFut EXCEPT ![t] = "none"]
  /\ tPc' = [tPc EXCEPT ![t] = "gen"]
  /\ IF outcome[1] = Undefined
     THEN /\ tError' = [tError EXCEPT ![t] = Undefined]
          /\ tResult' = [tResult EXCEPT ![t] = outcome[2]]
          /\ tArg' = [tArg EXCEPT ![t] = NextArg(tNode[t], Undefined, outcome[2])]
     ELSE UNCHANGED <<tError, tResult, tArg>>
  /\ UNCHANGED <<ownReason, destroyed, listeners, schedCount, races, tNode, tRace>>
  /\ UNCHANGED resumedBelow

\* One exec call whose generator suspends through run and through race while the
\* nodes of the tree are aborted and resumed.
RunNext(t) ==
  \/ \E n \in Nodes, r \in Reasons : SchedAbort(n, r)
  \/ \E n \in Nodes : SchedResume(n)
  \/ \E n \in Nodes : TaskStart(t, n)
  \/ GenRunAwait(t)
  \/ \E outcome \in FutureOutcomes : GenRunSettle(t, outcome)
  \/ GenYieldRace(t)
  \/ \E outcome \in FutureOutcomes : FutureSettle(t, outcome)
  \/ TaskWake(t)
  \/ GenDone(t)

TreeNext ==
  \/ \E n \in Nodes, r \in Reasons : SchedAbort(n, r)
  \/ \E n \in Nodes : SchedResume(n)
  \/ \E n \in Nodes : SchedDestroy(n)
  \/ \E n \in Nodes : SchedRecover(n)

TaskNext(t) ==
  \/ \E n \in Nodes : TaskStart(t, n)
  \/ GenYieldPlain(t, "v")
  \/ GenYieldRace(t)
  \/ \E outcome \in FutureOutcomes : FutureSettle(t, outcome)
  \/ TaskWake(t)
  \/ GenDone(t)

\* Two exec calls, each on any node, while the root is aborted and resumed.
TasksNext ==
  \/ \E t \in Tasks, n \in Nodes : TaskStart(t, n)
  \/ \E t \in Tasks : GenYieldRace(t)
  \/ \E t \in Tasks : FutureSettle(t, <<Undefined, "v">>)
  \/ \E t \in Tasks : TaskWake(t)
  \/ \E t \in Tasks : GenDone(t)
  \/ SchedAbort(1, "r1")
  \/ SchedResume(1)

\* One exec call on a tree whose nodes are destroyed and recovered, aborted with
\* one reason and resumed.
DetachNext(t) ==
  \/ \E n \in Nodes : SchedDestroy(n)
  \/ \E n \in Nodes : SchedRecover(n)
  \/ \E n \in Nodes : SchedAbort(n, "r1")
  \/ \E n \in Nodes : SchedResume(n)
  \/ \E n \in Nodes : TaskStart(t, n)
  \/ GenYieldPlain(t, "v")
  \/ GenYieldRace(t)
  \/ FutureSettle(t, <<Undefined, "v">>)
  \/ TaskWake(t)
  \/ GenDone(t)

\* One exec call at a time on a tree that is aborted, resumed, destroyed and
\* recovered freely.
SchedNext == TreeNext \/ TaskNext(1)

\* ------------------------------------------------------------------ dispatch
Calls == 1 .. MaxCalls
\* No id: the id field of a frame that carries none, and of a parsed notify.
NoId == MinSafeInteger - 1
\* The id that is the empty string, and the ids that are falsy: undefined, the
\* number 0, the empty string.
EmptyId == MinSafeInteger - 2
FalsyIds == {NoId, 0, EmptyId}
\* The registry: m1 is a plain handler, m2 a handler with limited: true, mx is not
\* registered. "#5" stands for a method field that is truthy but no string.
Handlers == [m1 |-> "plain", m2 |-> "limited"]
NonStringMethods == {"#5"}
\* What arrives: json = FALSE is a string JSON.parse rejects.
Data(json, jsonrpc, id, method, result, error) ==
  [json |-> json, jsonrpc |-> jsonrpc, id |-> id, method |-> method,
   params |-> Undefined, result |-> result, error |-> error]

InboundData ==
  {Data(FALSE, "2.0", NoId, Undefined, Undefined, Undefined)}
  \cup {Data(TRUE, "1.0", id, "m1", Undefined, Undefined) : id \in {NoId, 1}}
  \cup {Data(TRUE, "2.0", id, method, Undefined, Undefined) :
          id \in {NoId, 0, 1}, method \in {"m1", "m2", "mx"}}
  \cup {Data(TRUE, "2.0", id, "#5", Undefined, Undefined) : id \in {NoId, 1}}
  \cup {Data(TRUE, "2.0", id, Undefined, "v", Undefined) : id \in {NoId, 1}}
  \cup {Data(TRUE, "2.0", 1, Undefined, result, "e") : result \in {Undefined, "v"}}
  \cup {Data(TRUE, "2.0", 1, Undefined, Undefined, Undefined)}
\* What a handler's generator ends with: undefined, a plain value, an envelope
\* carrying a notify {method, params}, an envelope carrying a response, an envelope
\* whose notify is null, or a failure.
NotifyMethods == {"n1", "n2"}
Outcome(kind, method) == [kind |-> kind, method |-> method]

HandlerOutcomes ==
  {Outcome(kind, Undefined) :
     kind \in {"undefined", "value", "envelopeResponse", "envelopeEmpty", "throw"}}
  \cup {Outcome("envelopeNotify", method) : method \in NotifyMethods}
NoOp == [op |-> "new", type |-> "none", id |-> NoId, why |-> "none"]

\* JSONRPCErrorCode
CodeParse == -32700
CodeInvalidRequest == -32600
CodeNotFound == -32601
CodeInternal == -32603
CodeSever == -32000

\* JSONRPC.parse
Parse(data) ==
  IF ~data.json
  THEN [type |-> "throw", id |-> NoId, method |-> Undefined, params |-> Undefined,
        code |-> CodeParse]
  ELSE IF data.jsonrpc # "2.0"
  THEN [type |-> "throw", id |-> NoId, method |-> Undefined, params |-> Undefined,
        code |-> CodeInvalidRequest]
  ELSE IF Truthy(data.method)
       THEN IF data.method \in NonStringMethods
            THEN [type |-> "throw", id |-> NoId, method |-> Undefined, params |-> Undefined,
                  code |-> CodeInvalidRequest]
            ELSE IF data.id \notin FalsyIds
                 THEN [type |-> "request", id |-> data.id, method |-> data.method,
                       params |-> data.params, code |-> 0]
                 ELSE [type |-> "notify", id |-> NoId, method |-> data.method,
                       params |-> data.params, code |-> 0]
       ELSE IF ~Truthy(data.result) /\ ~Truthy(data.error)
            THEN [type |-> "throw", id |-> NoId, method |-> Undefined, params |-> Undefined,
                  code |-> CodeInvalidRequest]
            ELSE [type |-> "response", id |-> data.id, method |-> Undefined,
                  params |-> Undefined, code |-> 0]

\* JSONRPC.formatJSONRPCRequest(id, method, params)
FormatRequest(id, method, params) ==
  [json |-> TRUE, jsonrpc |-> "2.0", id |-> id, method |-> method,
   params |-> params, result |-> Undefined, error |-> Undefined]

\* JSONRPC.formatJSONRPCError / formatJSONRPCResult / formatJSONRPCNotify
ErrorFrame(code, id) == [type |-> "error", id |-> id, method |-> Undefined, code |-> code]
ResultFrame(id) == [type |-> "result", id |-> id, method |-> Undefined, code |-> 0]
NotifyFrame(method) == [type |-> "notify", id |-> NoId, method |-> method, code |-> 0]

\* A guard that lets every reply through.
HasIdAlways(id) == TRUE

\* id !== undefined && send(formatJSONRPCError(..., id))

HasId(id) == id # NoId

ErrorReplyDrop(code, id) == <<>>

ErrorReply(code, id) == IF HasId(id) THEN <<ErrorFrame(code, id)>> ELSE <<>>

\* then / catch callbacks that answer the id after the nested notify as well.
ReplyAlsoResult(id, outcome) ==
  IF outcome.kind = "throw" THEN ErrorReply(CodeInternal, id)
  ELSE IF outcome.kind = "envelopeNotify"
       THEN <<NotifyFrame(outcome.method)>> \o (IF id = NoId THEN <<>> ELSE <<ResultFrame(id)>>)
  ELSE IF outcome.kind \in {"value", "envelopeResponse"}
       THEN IF id = NoId THEN <<>> ELSE <<ResultFrame(id)>>
       ELSE <<>>

\* then / catch callbacks that send what they send twice.
ReplyTwice(id, outcome) == ReplyAlsoResult(id, outcome) \o ReplyAlsoResult(id, outcome)

\* The then / catch callbacks after scheduler.exec.
Reply(id, outcome) ==
  IF outcome.kind = "throw" THEN ErrorReply(CodeInternal, id)
  ELSE IF outcome.kind = "envelopeNotify" THEN <<NotifyFrame(outcome.method)>>
  ELSE IF outcome.kind \in {"value", "envelopeResponse"}
       THEN IF id = NoId THEN <<>> ELSE <<ResultFrame(id)>>
       ELSE <<>>

DispInit ==
  /\ dPc = [k \in Calls |-> "none"]
  /\ dId = [k \in Calls |-> NoId]
  /\ dTok = [k \in Calls |-> 0]
  /\ dReq = [k \in Calls |-> 0]
  /\ sentNow = <<>>
  /\ dispOp = NoOp

HasFree == \E k \in Calls : dPc[k] = "none"

FreeCall == CHOOSE k \in Calls : dPc[k] = "none" /\ \A j \in Calls : j < k => dPc[j] # "none"

\* The frame is dealt with inside the receive handler: nothing stays in progress.
Handled(sent, type, id, why) ==
  /\ sentNow' = sent
  /\ dispOp' = [op |-> "receive", type |-> type, id |-> id, why |-> why]
  /\ UNCHANGED <<dPc, dId, dTok, dReq>>

\* A call starts: scheduler.exec(...) is in progress when the receive handler returns.
Started(k, pc, id, tok, req) ==
  /\ HasFree
  /\ dPc' = [dPc EXCEPT ![k] = pc]
  /\ dId' = [dId EXCEPT ![k] = id]
  /\ dTok' = [dTok EXCEPT ![k] = tok]
  /\ dReq' = [dReq EXCEPT ![k] = req]
  /\ sentNow' = <<>>

\* A response frame goes to JSONRPC.response; an id no request ever had finds no entry.
DeliverResponse(data) ==
  IF data.id \in RpcIds
  THEN RpcResponse(data.id, data.result, data.error)
  ELSE rpcRet' = FALSE /\ UNCHANGED <<autoId, reqs, rpcCount, rpcN, rpcId, rpcPromise,
                                       rpcTimer, rpcSettles, rpcHow>>

\* SocketIOClient.handleJSONRPC(data), up to its return.
ReceiveDuplex(data) ==
  /\ LET p == Parse(data)
         k == FreeCall
     IN
       IF p.type = "throw"
       THEN Handled(<<ErrorFrame(p.code, NoId)>>, p.type, p.id, "invalid") /\ UNCHANGED <<gateVars, rpcVars>>
       ELSE IF p.type = "response"
       THEN Handled(<<>>, p.type, p.id, "response") /\ DeliverResponse(data) /\ UNCHANGED gateVars
       ELSE IF available = 0
       THEN Handled(ErrorReply(CodeSever, p.id), p.type, p.id, "saturated") /\ UNCHANGED <<gateVars, rpcVars>>
       ELSE IF p.method \notin DOMAIN Handlers
       THEN Handled(ErrorReply(CodeNotFound, p.id), p.type, p.id, "not found") /\ UNCHANGED <<gateVars, rpcVars>>
       ELSE IF Handlers[p.method] = "plain"
       THEN /\ Started(k, "handler", p.id, 0, 0)
            /\ dispOp' = [op |-> "receive", type |-> p.type, id |-> p.id, why |-> "started"]
            /\ UNCHANGED <<gateVars, rpcVars>>
       ELSE \* limitedRun runs to its first await: this.limited.get()
            /\ HasFree
            /\ Get
            /\ UNCHANGED rpcVars
            /\ IF gateOp'.ret = "token"
               THEN /\ Started(k, "ready", p.id, gateOp'.tok, 0)
                    /\ dispOp' = [op |-> "receive", type |-> p.type, id |-> p.id, why |-> "token"]
               ELSE IF gateOp'.ret = "queued"
               THEN /\ Started(k, "queued", p.id, 0, gateOp'.req)
                    /\ dispOp' = [op |-> "receive", type |-> p.type, id |-> p.id, why |-> "queued"]
               ELSE Handled(ErrorReply(CodeInternal, p.id), p.type, p.id, "too many queued")

\* SocketIOServerSide.handle(from, to, data), up to its return.
ReceiveBus(to, data) ==
  /\ UNCHANGED gateVars
  /\ LET p == Parse(data)
         k == FreeCall
     IN
       IF to # "all" /\ to # "me"
       THEN Handled(<<>>, "none", NoId, "ignored") /\ UNCHANGED rpcVars
       ELSE IF p.type = "throw"
       THEN Handled(<<ErrorFrame(p.code, NoId)>>, p.type, p.id, "invalid") /\ UNCHANGED rpcVars
       ELSE IF p.type = "response"
       THEN Handled(<<>>, p.type, p.id, "response") /\ DeliverResponse(data)
       ELSE IF p.method \notin DOMAIN Handlers
       THEN Handled(ErrorReply(CodeNotFound, p.id), p.type, p.id, "not found") /\ UNCHANGED rpcVars
       ELSE /\ Started(k, "handler", p.id, 0, 0)
            /\ dispOp' = [op |-> "receive", type |-> p.type, id |-> p.id, why |-> "started"]
            /\ UNCHANGED rpcVars

\* limitedRun has its token (from get() or from the queue): token.invoke2(handle()).
LimitedBegin(k) ==
  /\ \/ dPc[k] = "ready"
     \/ dPc[k] = "queued" /\ reqPromise[dReq[k]].state = "resolved"
  /\ LET token == IF dPc[k] = "ready" THEN dTok[k] ELSE reqPromise[dReq[k]].val IN
       /\ InvokeBegin(token)
       /\ dTok' = [dTok EXCEPT ![k] = token]
  /\ dPc' = [dPc EXCEPT ![k] = "handler"]
  /\ sentNow' = <<>>
  /\ dispOp' = [op |-> "begin", type |-> "none", id |-> dId[k], why |-> "none"]
  /\ UNCHANGED <<rpcVars, dId, dReq>>

\* limitedRun, the race on getToken returns ok = false (the call's scheduler was
\* aborted): result && put(result); cancel(request); throw error.
LimitedAbort(k) ==
  /\ dPc[k] = "queued"
  /\ IF reqPromise[dReq[k]].state = "resolved"
     THEN Put(reqPromise[dReq[k]].val)
     ELSE Cancel(dReq[k], Undefined)
  /\ dPc' = [dPc EXCEPT ![k] = "none"]
  /\ dId' = [dId EXCEPT ![k] = NoId]
  /\ dReq' = [dReq EXCEPT ![k] = 0]
  /\ sentNow' = ErrorReply(CodeInternal, dId[k])
  /\ dispOp' = [op |-> "abort", type |-> "none", id |-> dId[k], why |-> "throw"]
  /\ UNCHANGED <<rpcVars, dTok>>

\* The end of token.invoke2 followed by finally { this.limited.put(token) }.
InvokeEndPut(token) ==
  /\ token \in held
  /\ tokenStatus[token] = "Working"
  /\ IF Len(queue) > 0
     THEN Grant(token) /\ tokenStatus' = [tokenStatus EXCEPT ![token] = "Stopped"]
     ELSE PutIdle(token)

\* The handler's generator ends: the token, if any, is put back, then the then /
\* catch callback answers and finally destroys the call's scheduler.
HandlerEnd(k, outcome) ==
  /\ dPc[k] = "handler"
  /\ IF dTok[k] # 0 THEN InvokeEndPut(dTok[k]) ELSE UNCHANGED gateVars
  /\ dPc' = [dPc EXCEPT ![k] = "none"]
  /\ dId' = [dId EXCEPT ![k] = NoId]
  /\ dTok' = [dTok EXCEPT ![k] = 0]
  /\ dReq' = [dReq EXCEPT ![k] = 0]
  /\ sentNow' = Reply(dId[k], outcome)
  /\ dispOp' = [op |-> "end", type |-> "none", id |-> dId[k], why |-> outcome.kind]
  /\ UNCHANGED rpcVars

DispNext ==
  \/ \E data \in InboundData : ReceiveDuplex(data)
  \/ \E to \in {"all", "me", "other"}, data \in InboundData : ReceiveBus(to, data)
  \/ \E k \in Calls : LimitedBegin(k)
  \/ \E k \in Calls : LimitedAbort(k)
  \/ \E k \in Calls, outcome \in HandlerOutcomes : HandlerEnd(k, outcome)

\* ------------------------------------------------------------------ duplex peer
\* The peer's scheduler is node 2 of the tree: its parent, node 1, is the parent
\* given to the constructor, and node 4 is the scheduler of one inbound call.
Peer == 2
PeerReasons == {"r1"}
PeerOp(op, emitted) == [op |-> op, emitted |-> emitted]

PeerInit ==
  /\ peerOp = PeerOp("new", <<>>)
  /\ sinceDisconnect = "none"

\* SocketIOClient.handleDisconnect
PeerDisconnect ==
  /\ IF ~aborted(Peer)
     THEN /\ ownReason' = [ownReason EXCEPT ![Peer] = "disconnect"]
          /\ AbortRaces(Signalled(Peer))
     ELSE UNCHANGED <<ownReason, tRace>>
  /\ destroyed' = [destroyed EXCEPT ![Peer] = TRUE]
  /\ listeners' = [listeners EXCEPT ![Parent[Peer]] = Off(@, Peer)]
  /\ resumedBelow' = FALSE
  /\ peerOp' = PeerOp("disconnect", <<"disconnect">>)
  /\ sinceDisconnect' = IF ~aborted(Peer) THEN "clean" ELSE "dirty"
  /\ UNCHANGED <<schedCount, races, taskVars>>

\* SocketIOClient.handleConnect
PeerConnect ==
  /\ ownReason' = IF reason(Peer) = "disconnect"
                  THEN [ownReason EXCEPT ![Peer] = Undefined]
                  ELSE ownReason
  /\ IF destroyed[Peer]
     THEN /\ destroyed' = [destroyed EXCEPT ![Peer] = FALSE]
          /\ listeners' = [listeners EXCEPT ![Parent[Peer]] = On(@, Peer)]
     ELSE UNCHANGED <<destroyed, listeners>>
  /\ resumedBelow' = (reason(Peer) = "disconnect" /\ aborted(Parent[Peer]))
  /\ peerOp' = PeerOp("connect", <<"connect">>)
  /\ sinceDisconnect' = IF sinceDisconnect = "clean" THEN "reconnected" ELSE "none"
  /\ UNCHANGED <<schedCount, races, tRace, taskVars>>

\* abort(reason) on the peer's scheduler or on its parent, by the peer's owner.
PeerTreeAbort(n, r) ==
  /\ SchedAbort(n, r)
  /\ peerOp' = PeerOp("abort", <<>>)
  /\ sinceDisconnect' = IF sinceDisconnect = "clean" THEN "dirty"
                        ELSE IF sinceDisconnect = "reconnected" THEN "none"
                        ELSE sinceDisconnect

\* SocketIOClient.resume, or resume() on the parent.
PeerTreeResume(n) ==
  /\ SchedResume(n)
  /\ peerOp' = PeerOp("resume", <<>>)
  /\ UNCHANGED sinceDisconnect

\* An inbound call starts on its own scheduler, a child of the peer's.
PeerCallStart(t) ==
  /\ ownReason[4] = Undefined /\ ~destroyed[4]
  /\ TaskStart(t, 4)
  /\ peerOp' = PeerOp("start", <<>>)
  /\ UNCHANGED sinceDisconnect

\* The call goes on: it yields, waits, wakes or ends.
PeerCallStep(t) ==
  /\ \/ GenYieldPlain(t, "v")
     \/ GenYieldRace(t)
     \/ \E outcome \in FutureOutcomes : FutureSettle(t, outcome)
     \/ TaskWake(t)
     \/ GenDone(t)
  /\ peerOp' = PeerOp("call", <<>>)
  /\ UNCHANGED sinceDisconnect

\* What handleDisconnect does to the correlator: it makes no call on this.jsonrpc.
DisconnectAbortsCorrelator == RpcAbort("disconnect")

DisconnectCorrelator == UNCHANGED rpcVars

\* SocketIOClient.abort(reason): scheduler.abort(reason); jsonrpc.abort(reason).
PeerAbort(r) ==
  /\ PeerTreeAbort(Peer, r)
  /\ RpcAbort(r)

\* A call on the peer's correlator: request, a response frame, a timer.
PeerRpcStep ==
  /\ \/ \E timed \in BOOLEAN : RpcRequest(timed)
     \/ \E k \in RpcReqs : RpcTimerFire(k)
     \/ \E id \in RpcIds : RpcResponse(id, "v", Undefined)
  /\ peerOp' = PeerOp("rpc", <<>>)
  /\ UNCHANGED <<schedVars, sinceDisconnect>>

PeerRpcNext ==
  \/ PeerDisconnect /\ DisconnectCorrelator
  \/ PeerConnect /\ UNCHANGED rpcVars
  \/ \E r \in PeerReasons : PeerAbort(r)
  \/ PeerRpcStep

PeerNext ==
  \/ PeerDisconnect
  \/ PeerConnect
  \/ \E n \in Chain(Peer), r \in PeerReasons : PeerTreeAbort(n, r)
  \/ \E n \in Chain(Peer) : PeerTreeResume(n)
  \/ PeerCallStart(1)
  \/ PeerCallStep(1)

\* ------------------------------------------------------------------ HTTPServer
\* The server is constructed without maxTokens / maxQueued / limited, so
\* this.limited is undefined and every handler runs directly under exec. The server's
\* scheduler is node 1; request slot h gets the fresh scheduler
\* new Scheduler(this.scheduler), node h + 1, and its exec call is task h.
HttpReqs == {1, 2}
HttpNode(h) == h + 1
HttpServerNode == 1
HttpReasons == {"r1"}
Disconnected == "disconnected"
\* What req.body is: no JSON-RPC request, a request for an unregistered method, a
\* request for a registered method.
HttpBodies == {"invalid", "unknown", "known"}
\* How the handler's generator ends: it returns a value, returns undefined, throws
\* an error of its own, or throws the error it was resumed with.
HttpEnds == {"value", "undefined", "throw", "rethrow"}

HttpOp(op, h) == [op |-> op, h |-> h]

HttpInit ==
  /\ hPc = [h \in HttpReqs |-> "idle"]
  /\ hOpen = [h \in HttpReqs |-> TRUE]
  /\ hListen = [h \in HttpReqs |-> FALSE]
  /\ hWritten = [h \in HttpReqs |-> <<>>]
  /\ hEarly = [h \in HttpReqs |-> FALSE]
  /\ hOp = HttpOp("new", 0)
  /\ stopped = FALSE

\* The middleware returned by handle(), up to req.socket.on("close", abort).
HttpHandle(h, body) ==
  /\ hPc[h] = "idle"
  /\ hOpen[h]
  /\ hOp' = HttpOp("handle", h)
  /\ IF body = "known"
     THEN /\ TaskStart(h, HttpNode(h))
          /\ hPc' = [hPc EXCEPT ![h] = "running"]
          /\ hListen' = [hListen EXCEPT ![h] = TRUE]
          /\ UNCHANGED <<hOpen, hWritten, hEarly, stopped>>
     ELSE /\ hWritten' = [hWritten EXCEPT ![h] = Append(@, "error")]
          /\ hPc' = [hPc EXCEPT ![h] = "done"]
          /\ UNCHANGED <<schedVars, hOpen, hListen, hEarly, stopped>>

\* The handler's generator between its start and its end.
HttpStep(h) ==
  /\ hPc[h] = "running"
  /\ \/ GenYieldPlain(h, "v")
     \/ GenYieldRace(h)
     \/ \E outcome \in FutureOutcomes : FutureSettle(h, outcome)
     \/ TaskWake(h)
  /\ hOp' = HttpOp("step", h)
  /\ UNCHANGED <<hPc, hOpen, hListen, hWritten, hEarly, stopped>>

\* .catch((err) => ...): the error "disconnected" is ignored, any other is sent.
HttpCatch(err, written) ==
  IF err = Disconnected THEN written ELSE Append(written, "error")

\* The generator ends; exec settles and then / catch / finally run.
HttpEnd(h, end) ==
  /\ hPc[h] = "running"
  /\ end = "rethrow" => ~tArg[h].ok
  /\ ExecEnd(h)
  /\ hWritten' = [hWritten EXCEPT ![h] =
                    CASE end = "value" -> Append(@, "result")
                      [] end = "undefined" -> @
                      [] end = "throw" -> HttpCatch("e", @)
                      [] end = "rethrow" -> HttpCatch(tArg[h].error, @)]
  /\ destroyed' = [destroyed EXCEPT ![HttpNode(h)] = TRUE]
  /\ listeners' = [listeners EXCEPT ![Parent[HttpNode(h)]] = Off(@, HttpNode(h))]
  /\ hListen' = [hListen EXCEPT ![h] = FALSE]
  /\ hPc' = [hPc EXCEPT ![h] = "done"]
  /\ hOp' = HttpOp(end, h)
  /\ UNCHANGED <<hOpen, hEarly, stopped>>

\* req.socket emits "close"; the registered callback is
\* if (scheduler.parallels > 0 && !scheduler.aborted) scheduler.abort("disconnected").
HttpSocketClose(h) ==
  /\ hOpen[h]
  /\ hOpen' = [hOpen EXCEPT ![h] = FALSE]
  /\ hEarly' = [hEarly EXCEPT ![h] = (hPc[h] = "running")]
  /\ hOp' = HttpOp("close", h)
  /\ IF hListen[h] /\ schedCount[HttpNode(h)] > 0 /\ ~aborted(HttpNode(h))
     THEN SchedAbort(HttpNode(h), Disconnected)
     ELSE UNCHANGED schedVars
  /\ UNCHANGED <<hPc, hListen, hWritten, stopped>>

\* HTTPServer.abort(reason)
HttpAbort(r) ==
  /\ SchedAbort(HttpServerNode, r)
  /\ hOp' = HttpOp("abort", 0)
  /\ UNCHANGED <<hPc, hOpen, hListen, hWritten, hEarly, stopped>>

\* HTTPServer.resume()
HttpResume ==
  /\ SchedResume(HttpServerNode)
  /\ hOp' = HttpOp("resume", 0)
  /\ UNCHANGED <<hPc, hOpen, hListen, hWritten, hEarly, stopped>>

HttpNext ==
  \/ \E h \in HttpReqs, body \in HttpBodies : HttpHandle(h, body)
  \/ \E h \in HttpReqs : HttpStep(h)
  \/ \E h \in HttpReqs, end \in HttpEnds : HttpEnd(h, end)
  \/ \E h \in HttpReqs : HttpSocketClose(h)
  \/ \E r \in HttpReasons : HttpAbort(r)
  \/ HttpResume

\* checkIfStopped(): whether the middleware calls next() without an error.
CheckIfStoppedNever(flag) == TRUE

CheckIfStopped(flag) == ~flag

\* A request enters the middleware chain startup() builds: checkIfStopped(), then
\* (no gate: checkIfAvailable passes) handle(). After next(new Error("stopped"))
\* only the error middleware runs.
HttpRequest(h, body) ==
  IF CheckIfStopped(stopped)
  THEN HttpHandle(h, body)
  ELSE /\ hPc[h] = "idle"
       /\ hOpen[h]
       /\ hWritten' = [hWritten EXCEPT ![h] = Append(@, "503")]
       /\ hPc' = [hPc EXCEPT ![h] = "done"]
       /\ hOp' = HttpOp("stopped", h)
       /\ UNCHANGED <<schedVars, hOpen, hListen, hEarly, stopped>>

\* HTTPServer.stop()
HttpStop ==
  /\ stopped' = TRUE
  /\ hOp' = HttpOp("stop", 0)
  /\ UNCHANGED <<schedVars, hPc, hOpen, hListen, hWritten, hEarly>>

\* HTTPServer.start()
HttpStart ==
  /\ stopped' = FALSE
  /\ hOp' = HttpOp("start", 0)
  /\ UNCHANGED <<schedVars, hPc, hOpen, hListen, hWritten, hEarly>>

HttpStopNext ==
  \/ \E h \in HttpReqs, body \in HttpBodies : HttpRequest(h, body)
  \/ \E h \in HttpReqs : HttpStep(h)
  \/ \E h \in HttpReqs, end \in HttpEnds : HttpEnd(h, end)
  \/ HttpStop
  \/ HttpStart

\* ------------------------------------------------------------------ Scheduler.wait
\* The scenario of "should abort and wait succeed": tasks are started on the parent
\* (the root) and on its descendants, the parent is aborted, and a caller awaits
\* parent.wait(). The tasks unwind: a generator that was resumed with ok=false
\* returns. The futures they await through run are fulfilled.
DrainInit == drain = "none"

\* Counter.promise of node n: created by the increase that leaves 0, resolved and
\* dropped by the decrease that reaches 0.
CounterPromise(n) == IF schedCount[n] = 0 THEN "none" ELSE "pending"

\* Counter.destroy run by a decrease of the root's counter: a pending wait resolves.
DrainResolve ==
  drain' = IF drain = "waiting" /\ schedCount'[1] = 0 THEN "resolved" ELSE drain

DrainStart(t, n) ==
  /\ drain = "none"
  /\ ~aborted(1)
  /\ TaskStart(t, n)
  /\ UNCHANGED drain

\* The generator goes on after being resumed with ok=true.
DrainYield(t) ==
  /\ tArg[t].ok
  /\ \/ GenYieldPlain(t, "v")
     \/ GenYieldRace(t)
     \/ GenRunAwait(t)
  /\ UNCHANGED drain

\* What happens to a suspended task: its future settles, exec continues.
DrainSettle(t) ==
  /\ \/ GenRunSettle(t, <<Undefined, "v">>)
     \/ \E outcome \in FutureOutcomes : FutureSettle(t, outcome)
     \/ TaskWake(t)
  /\ UNCHANGED drain

\* The generator returns or throws.
DrainDone(t) ==
  /\ GenDone(t)
  /\ DrainResolve

\* parent.abort(r)
DrainAbort(r) ==
  /\ ~aborted(1)
  /\ SchedAbort(1, r)
  /\ UNCHANGED drain

\* Scheduler.wait() of the parent: this.counter.wait(), the pending promise or a
\* resolved one.
DrainWait ==
  /\ drain = "none"
  /\ aborted(1)
  /\ drain' = IF CounterPromise(1) = "none" THEN "immediate" ELSE "waiting"
  /\ UNCHANGED schedVars

DrainTask(t) == DrainYield(t) \/ DrainSettle(t) \/ DrainDone(t)

DrainNext ==
  \/ \E t \in Tasks, n \in Nodes : DrainStart(t, n)
  \/ \E t \in Tasks : DrainYield(t)
  \/ \E t \in Tasks : DrainSettle(t)
  \/ \E t \in Tasks : DrainDone(t)
  \/ \E r \in Reasons : DrainAbort(r)
  \/ DrainWait

\* ------------------------------------------------------------------ calls
NoCall == <<"none">>

CallInit == callIn = NoCall /\ callOut = NoCall

\* An abort that takes undefined for a reason like any other.
SchedAbortCallAny(n, r) ==
  /\ callIn' = <<"abort", n, r>>
  /\ callOut' = IF r = Undefined THEN <<"throw", "invalid reason">> ELSE <<"return">>
  /\ SchedAbort(n, r)

\* Scheduler.abort(_reason) as called: it throws Error("invalid reason") for the
\* reason undefined before it touches anything.
SchedAbortCall(n, r) ==
  /\ callIn' = <<"abort", n, r>>
  /\ IF r = Undefined
     THEN /\ callOut' = <<"throw", "invalid reason">>
          /\ UNCHANGED schedVars
     ELSE /\ callOut' = <<"return">>
          /\ SchedAbort(n, r)

\* One exec call on a tree whose nodes are aborted, with and without a reason,
\* and resumed.
AbortCallNext(t) ==
  \/ \E n \in Nodes, r \in Reasons \cup {Undefined} : SchedAbortCall(n, r)
  \/ /\ \/ \E n \in Nodes : SchedResume(n)
        \/ \E n \in Nodes : TaskStart(t, n)
        \/ GenYieldRace(t)
        \/ FutureSettle(t, <<Undefined, "v">>)
        \/ TaskWake(t)
        \/ GenDone(t)
     /\ callIn' = NoCall /\ callOut' = NoCall

\* The ids, methods and params formatJSONRPCRequest is called with: id is a string
\* (the empty one included), method and params are optional.
FormatIds == {EmptyId} \cup (RpcIds \ {0})
FormatMethods == {Undefined, "", "m1", "m2", "mx"}
FormatParams == {Undefined, "0", "p1", "p2"}

\* parse(formatJSONRPCRequest(id, method, params)): returns [type, data] or throws.
ParseFormatted ==
  /\ callIn[1] = "formatJSONRPCRequest"
  /\ callOut = NoCall
  /\ LET parsed == Parse(FormatRequest(callIn[2], callIn[3], callIn[4]))
     IN callOut' = IF parsed.type = "throw"
                   THEN <<"throw", parsed.code>>
                   ELSE <<"return", parsed.type, parsed.id, parsed.method, parsed.params>>
  /\ UNCHANGED callIn

\* What formatJSONRPCError is given as codeOrError: a number, a string, a
\* JSONRPCError (its message is "" when constructed without one), another Error,
\* or a value that is none of these.
Codes == {CodeParse, CodeInvalidRequest, CodeNotFound, CodeInternal, CodeSever}
CodeOrError(kind, code, message) == [kind |-> kind, code |-> code, message |-> message]
CodeOrErrors ==
  {CodeOrError("number", code, Undefined) : code \in Codes}
  \cup {CodeOrError("string", 0, message) : message \in {"", "s1", "s2"}}
  \cup {CodeOrError("JSONRPCError", code, message) : code \in Codes, message \in {"", "e1"}}
  \cup {CodeOrError("Error", 0, message) : message \in {"", "e1", "e2"}}
  \cup {CodeOrError("other", 0, message) : message \in {Undefined, "e1"}}
ErrorMessages == {Undefined, "m1"}

\* JSONRPC.formatJSONRPCError(codeOrError, id, message): the error member of the frame.
FormatError(codeOrError, id, message) ==
  IF codeOrError.kind = "number"
  THEN [id |-> id, code |-> codeOrError.code, message |-> message]
  ELSE IF codeOrError.kind = "string"
  THEN [id |-> id, code |-> CodeInternal, message |-> codeOrError.message]
  ELSE IF codeOrError.kind = "JSONRPCError"
  THEN [id |-> id, code |-> codeOrError.code, message |-> codeOrError.message]
  ELSE IF codeOrError.kind = "Error"
  THEN [id |-> id, code |-> CodeInternal, message |-> codeOrError.message]
  ELSE [id |-> id, code |-> CodeInternal, message |-> "internal unknown error"]

FormatErrorCall ==
  /\ callIn[1] = "formatJSONRPCError"
  /\ callOut = NoCall
  /\ callOut' = <<"return", FormatError(callIn[2], callIn[3], callIn[4])>>
  /\ UNCHANGED callIn

\* ------------------------------------------------------------------ SocketIOServer
SocketIds == {"s1", "s2"}
IndexPeers == 1 .. MaxPeers
RepeatSocketId == "repeat socket id"

IndexInit ==
  /\ clients = [sid \in SocketIds |-> 0]
  /\ ixN = 0
  /\ ixId = [p \in IndexPeers |-> "s1"]
  /\ ixState = [p \in IndexPeers |-> "none"]
  /\ ixReason = [p \in IndexPeers |-> Undefined]
  /\ ixListening = [p \in IndexPeers |-> FALSE]
  /\ ixOp = [op |-> "new", peer |-> 0, old |-> 0, steps |-> <<>>]

\* handleDisconnect of SocketIOServer.handle: the guarded delete.
DeleteAlways(table, sid, p) == [table EXCEPT ![sid] = 0]

DeleteOwn(table, sid, p) == IF table[sid] = p THEN [table EXCEPT ![sid] = 0] ELSE table

\* SocketIOServer.handle(socket): socket.id is sid. socket.disconnect(true) of the
\* peer it replaces delivers that peer's "disconnect" either inside close()
\* (during) or later.
IndexHandle(sid, during) ==
  /\ ixN < MaxPeers
  /\ LET p == ixN + 1
         old == clients[sid]
         closed == IF old = 0 THEN clients
                   ELSE IF during THEN DeleteOwn(clients, sid, old) ELSE clients
     IN
       /\ ixN' = p
       /\ ixId' = [ixId EXCEPT ![p] = sid]
       /\ clients' = [closed EXCEPT ![sid] = p]
       /\ ixState' = [q \in IndexPeers |->
                        IF q = p THEN "connected"
                        ELSE IF q = old THEN (IF during THEN "disconnected" ELSE "closing")
                        ELSE ixState[q]]
       /\ ixReason' = [q \in IndexPeers |-> IF q = old THEN RepeatSocketId ELSE ixReason[q]]
       /\ ixListening' = [q \in IndexPeers |->
                            IF q = p THEN TRUE ELSE IF q = old THEN FALSE ELSE ixListening[q]]
       /\ ixOp' = [op |-> "handle", peer |-> p, old |-> old,
                   steps |-> (IF old = 0 THEN <<>>
                              ELSE <<"abort", "stop", "close">>
                                   \o (IF during THEN <<"disconnect">> ELSE <<>>))
                             \o <<"set", "connect">>]

\* The socket of peer p emits "disconnect": SocketIOClient.handleDisconnect, then
\* the handleDisconnect that SocketIOServer.handle registered.
IndexDisconnect(p) ==
  /\ ixState[p] \in {"connected", "closing"}
  /\ ixState' = [ixState EXCEPT ![p] = "disconnected"]
  /\ ixReason' = [ixReason EXCEPT ![p] = IF @ = Undefined THEN "disconnect" ELSE @]
  /\ clients' = DeleteOwn(clients, ixId[p], p)
  /\ ixOp' = [op |-> "disconnect", peer |-> p, old |-> 0, steps |-> <<"disconnect">>]
  /\ UNCHANGED <<ixN, ixId, ixListening>>

IndexNext ==
  \/ \E sid \in SocketIds, during \in BOOLEAN : IndexHandle(sid, during)
  \/ \E p \in IndexPeers : IndexDisconnect(p)

\* ------------------------------------------------------------------ SocketIOServerSide
BusNames == {"all", "a", "b"}
BusSenders == {"a", "b", "c"}
BusReceivers == {"all", "a", "b", "c"}
NoName == "none"
NoPost == [to |-> NoName, frames |-> <<>>]

BusInit ==
  /\ busName = NoName
  /\ dFrom = [k \in Calls |-> NoName]
  /\ posted = NoPost

\* The test at the head of SocketIOServerSide.handle.
AddressedAny(to, name) == TRUE

Addressed(to, name) == to = "all" \/ to = name

\* new SocketIOServerSide({name, ...})
BusConstruct(name) ==
  /\ busName = NoName
  /\ callIn' = <<"new", name>>
  /\ IF name = "all"
     THEN callOut' = <<"throw", "invalid server name">> /\ UNCHANGED busName
     ELSE callOut' = <<"return">> /\ busName' = name
  /\ UNCHANGED <<gateVars, rpcVars, dispVars, dFrom, posted>>

\* SocketIOServerSide.handle(from, to, data) of the constructed node; every
\* _message of the handler goes to from.
BusHandle(from, to, data) ==
  /\ busName # NoName
  /\ callIn' = <<"message", from, to>>
  /\ callOut' = <<"return">>
  /\ IF ~Addressed(to, busName)
     THEN /\ Handled(<<>>, "none", NoId, "ignored")
          /\ posted' = NoPost
          /\ UNCHANGED <<gateVars, rpcVars, dFrom>>
     ELSE /\ ReceiveBus("all", data)
          /\ posted' = IF sentNow' = <<>> THEN NoPost ELSE [to |-> from, frames |-> sentNow']
          /\ dFrom' = IF dispOp'.why = "started" THEN [dFrom EXCEPT ![FreeCall] = from] ELSE dFrom
  /\ UNCHANGED busName

\* The handler of call k ends: then / catch post to the from of its message.
BusEnd(k, outcome) ==
  /\ HandlerEnd(k, outcome)
  /\ posted' = IF sentNow' = <<>> THEN NoPost ELSE [to |-> dFrom[k], frames |-> sentNow']
  /\ dFrom' = [dFrom EXCEPT ![k] = NoName]
  /\ callIn' = NoCall
  /\ callOut' = NoCall
  /\ UNCHANGED busName

BusNext ==
  \/ \E name \in BusNames : BusConstruct(name)
  \/ \E from \in BusSenders, to \in BusReceivers, data \in InboundData : BusHandle(from, to, data)
  \/ \E k \in Calls, outcome \in HandlerOutcomes : BusEnd(k, outcome)

\* ------------------------------------------------------------------ Counter alone
Waiters == {1, 2}
Amounts == 1 .. MaxCount

CounterInit ==
  /\ cCount = 0
  /\ cPromise = "none"
  /\ cWaits = [w \in Waiters |-> "none"]
  /\ cOp = [op |-> "new", i |-> 0, threw |-> FALSE]

\* Counter.increase(i)
CounterIncreaseCall(i) ==
  /\ cCount + i <= MaxCount
  /\ cCount' = CounterIncrease(cCount, i)
  /\ cPromise' = IF cCount' - i = 0 THEN "pending" ELSE cPromise
  /\ cOp' = [op |-> "increase", i |-> i, threw |-> FALSE]
  /\ UNCHANGED cWaits

\* Counter.decrease(i): destroy() calls this.resolve, which is undefined when no
\* promise was created, and that call throws a TypeError.
CounterDecreaseCall(i) ==
  /\ cCount' = CounterDecrease(cCount, i)
  /\ IF cCount' = 0
     THEN IF cPromise = "none"
          THEN /\ cOp' = [op |-> "decrease", i |-> i, threw |-> TRUE]
               /\ UNCHANGED <<cPromise, cWaits>>
          ELSE /\ cOp' = [op |-> "decrease", i |-> i, threw |-> FALSE]
               /\ cPromise' = "none"
               /\ cWaits' = [w \in Waiters |-> IF cWaits[w] = "pending" THEN "resolved"
                                                                       ELSE cWaits[w]]
     ELSE /\ cOp' = [op |-> "decrease", i |-> i, threw |-> FALSE]
          /\ UNCHANGED <<cPromise, cWaits>>

\* Counter.wait() called by w: this.promise ?? Promise.resolve()
CounterWait(w) ==
  /\ cWaits[w] # "pending"
  /\ cWaits' = [cWaits EXCEPT ![w] = IF cPromise = "none" THEN "resolved" ELSE "pending"]
  /\ cOp' = [op |-> "wait", i |-> w, threw |-> FALSE]
  /\ UNCHANGED <<cCount, cPromise>>

CounterNext ==
  \/ \E i \in Amounts : CounterIncreaseCall(i)
  \/ \E i \in Amounts : CounterDecreaseCall(i)
  \/ \E w \in Waiters : CounterWait(w)

\* ------------------------------------------------------------------ Channel
\* new Channel({max: MaxChannel}), no drop callback.
ChannelData == {"d1", "d2"}
ChannelAbortError == "ChannelAbortError"

ChannelInit ==
  /\ chAborted = FALSE
  /\ chArray = <<>>
  /\ chWaiting = FALSE
  /\ chPromise = [state |-> "none", val |-> Undefined]
  /\ chOp = [op |-> "new", ret |-> Undefined]

\* Channel.push(data)
ChannelPush(data) ==
  IF chAborted
  THEN /\ chOp' = [op |-> "push", ret |-> "false"]
       /\ UNCHANGED <<chAborted, chArray, chWaiting, chPromise>>
  ELSE /\ chOp' = [op |-> "push", ret |-> "true"]
       /\ IF chWaiting
          THEN /\ chPromise' = Settle(chPromise, "resolved", data)
               /\ chWaiting' = FALSE
               /\ UNCHANGED chArray
          ELSE /\ chArray' = LET pushed == Append(chArray, data)
                             IN IF Len(pushed) > MaxChannel
                                THEN SubSeq(pushed, Len(pushed) - MaxChannel + 1, Len(pushed))
                                ELSE pushed
               /\ UNCHANGED <<chWaiting, chPromise>>
       /\ UNCHANGED chAborted

\* Channel.next(), called by the single consumer when its last promise has settled.
ChannelNextCall ==
  /\ chPromise.state # "pending"
  /\ chOp' = [op |-> "next", ret |-> Undefined]
  /\ IF Len(chArray) > 0
     THEN /\ chPromise' = [state |-> "resolved", val |-> Head(chArray)]
          /\ chArray' = Tail(chArray)
          /\ UNCHANGED chWaiting
     ELSE /\ chPromise' = Pending
          /\ chWaiting' = TRUE
          /\ UNCHANGED chArray
  /\ UNCHANGED chAborted

\* Channel.abort()
ChannelAbort ==
  /\ chOp' = [op |-> "abort", ret |-> Undefined]
  /\ IF chWaiting
     THEN chPromise' = Settle(chPromise, "rejected", ChannelAbortError)
     ELSE UNCHANGED chPromise
  /\ chWaiting' = FALSE
  /\ chAborted' = TRUE
  /\ chArray' = <<>>

\* Channel.reset()
ChannelReset ==
  /\ chOp' = [op |-> "reset", ret |-> Undefined]
  /\ chAborted' = FALSE
  /\ UNCHANGED <<chArray, chWaiting, chPromise>>

ChannelNext ==
  \/ \E data \in ChannelData : ChannelPush(data)
  \/ ChannelNextCall
  \/ ChannelAbort
  \/ ChannelReset

\* ------------------------------------------------------------------ limitedRun
\* Task t is scheduler.exec(this.limitedRun(...)) of an inbound call; its scheduler
\* is a child of the peer's scheduler, node 1.
RunNode(t) == t + 1
TokenResult == "token"

RunInit ==
  /\ lrPc = [t \in Tasks |-> "idle"]
  /\ lrTok = [t \in Tasks |-> 0]
  /\ lrReq = [t \in Tasks |-> 0]

\* exec is called with the generator.
LimitedRunStart(t) ==
  /\ lrPc[t] = "idle"
  /\ TaskStart(t, RunNode(t))
  /\ lrPc' = [lrPc EXCEPT ![t] = "start"]
  /\ UNCHANGED <<gateVars, lrTok, lrReq>>

\* const { request, getToken } = this.limited.get(): with a request the generator
\* yields raceNoExcept(toNoExcept(getToken)), without one it awaits getToken.
LimitedRunGet(t) ==
  /\ lrPc[t] = "start"
  /\ Get
  /\ IF gateOp'.ret = "token"
     THEN /\ lrPc' = [lrPc EXCEPT ![t] = "ready"]
          /\ lrTok' = [lrTok EXCEPT ![t] = gateOp'.tok]
          /\ UNCHANGED <<schedVars, lrReq>>
     ELSE IF gateOp'.ret = "queued"
     THEN /\ lrPc' = [lrPc EXCEPT ![t] = "queued"]
          /\ lrReq' = [lrReq EXCEPT ![t] = gateOp'.req]
          /\ GenYieldRace(t)
          /\ UNCHANGED lrTok
     ELSE /\ lrPc' = [lrPc EXCEPT ![t] = "throw"]
          /\ UNCHANGED <<schedVars, lrTok, lrReq>>

\* getToken has been resolved by a put: the callbacks of toNoExcept and of the race
\* wait run and resolve the wait with the token, unless abortRaces was first.
LimitedRunGranted(t) ==
  /\ lrPc[t] = "queued"
  /\ reqPromise[lrReq[t]].state = "resolved"
  /\ FutureSettle(t, <<Undefined, TokenResult>>)
  /\ UNCHANGED <<gateVars, runVars>>

\* exec continues after the race wait and re-enters the generator.
LimitedRunWake(t) ==
  /\ lrPc[t] = "queued"
  /\ TaskWake(t)
  /\ UNCHANGED <<gateVars, runVars>>

\* The generator continues after the yield with {ok, error, result}:
\* if (!ok) { result && this.limited.put(result); this.limited.cancel(request); throw error }
\* token = result
LimitedRunResume(t) ==
  /\ lrPc[t] = "queued"
  /\ tPc[t] = "gen"
  /\ IF tArg[t].ok
     THEN IF tArg[t].result = TokenResult
          THEN /\ lrTok' = [lrTok EXCEPT ![t] = reqPromise[lrReq[t]].val]
               /\ lrPc' = [lrPc EXCEPT ![t] = "ready"]
               /\ UNCHANGED gateVars
          ELSE /\ lrPc' = [lrPc EXCEPT ![t] = "throw"]
               /\ UNCHANGED <<gateVars, lrTok>>
     ELSE /\ IF tArg[t].result = TokenResult
             THEN Put(reqPromise[lrReq[t]].val)
             ELSE Cancel(lrReq[t], Undefined)
          /\ lrPc' = [lrPc EXCEPT ![t] = "throw"]
          /\ UNCHANGED lrTok
  /\ UNCHANGED <<schedVars, lrReq>>

\* token.invoke2(handle()) starts the handler.
LimitedRunBegin(t) ==
  /\ lrPc[t] = "ready"
  /\ InvokeBegin(lrTok[t])
  /\ lrPc' = [lrPc EXCEPT ![t] = "working"]
  /\ UNCHANGED <<schedVars, lrTok, lrReq>>

\* The handler ends, finally { this.limited.put(token) }, and exec ends.
LimitedRunEnd(t) ==
  /\ lrPc[t] = "working"
  /\ InvokeEndPut(lrTok[t])
  /\ GenDone(t)
  /\ lrPc' = [lrPc EXCEPT ![t] = "idle"]
  /\ lrTok' = [lrTok EXCEPT ![t] = 0]
  /\ lrReq' = [lrReq EXCEPT ![t] = 0]

\* The generator has thrown without a token: exec ends.
LimitedRunThrow(t) ==
  /\ lrPc[t] = "throw"
  /\ GenDone(t)
  /\ lrPc' = [lrPc EXCEPT ![t] = "idle"]
  /\ lrTok' = [lrTok EXCEPT ![t] = 0]
  /\ lrReq' = [lrReq EXCEPT ![t] = 0]
  /\ UNCHANGED gateVars

\* abort of the peer's scheduler or of the scheduler of one call.
LimitedRunAbort(n) ==
  /\ SchedAbort(n, "r1")
  /\ UNCHANGED <<gateVars, runVars>>

LimitedRunNext ==
  \/ \E t \in Tasks : LimitedRunStart(t)
  \/ \E t \in Tasks : LimitedRunGet(t)
  \/ \E t \in Tasks : LimitedRunGranted(t)
  \/ \E t \in Tasks : LimitedRunWake(t)
  \/ \E t \in Tasks : LimitedRunResume(t)
  \/ \E t \in Tasks : LimitedRunBegin(t)
  \/ \E t \in Tasks : LimitedRunEnd(t)
  \/ \E t \in Tasks : LimitedRunThrow(t)
  \/ \E n \in {1, 2, 3} : LimitedRunAbort(n)

\* ------------------------------------------------------------------ HTTPServer with a gate
\* checkIfAvailable(): whether the middleware calls next() without an error.
CheckIfAvailableAlways(free) == TRUE

CheckIfAvailable(free) == free # 0

\* A request enters checkIfAvailable(); when it passes, express.json() reads the
\* body before handle() is called.
HttpAvailable(h) ==
  /\ hPc[h] = "idle"
  /\ hOpen[h]
  /\ IF CheckIfAvailable(available)
     THEN /\ hPc' = [hPc EXCEPT ![h] = "checked"]
          /\ hOp' = HttpOp("available", h)
          /\ UNCHANGED hWritten
     ELSE /\ hWritten' = [hWritten EXCEPT ![h] = Append(@, "503")]
          /\ hPc' = [hPc EXCEPT ![h] = "done"]
          /\ hOp' = HttpOp("unavailable", h)
  /\ UNCHANGED <<gateVars, schedVars, runVars, hOpen, hListen, hEarly, stopped>>

\* handle() of a server with a gate, for a handler that is limited:
\* scheduler.exec(limitedRun(this.limited, () => handle(params))).
HttpLimitedHandle(h, body) ==
  /\ hPc[h] = "checked"
  /\ hOp' = HttpOp("handle", h)
  /\ IF body = "known"
     THEN /\ LimitedRunStart(h)
          /\ hPc' = [hPc EXCEPT ![h] = "running"]
          /\ hListen' = [hListen EXCEPT ![h] = TRUE]
          /\ UNCHANGED <<hOpen, hWritten, hEarly, stopped>>
     ELSE /\ hWritten' = [hWritten EXCEPT ![h] = Append(@, "error")]
          /\ hPc' = [hPc EXCEPT ![h] = "done"]
          /\ UNCHANGED <<gateVars, schedVars, runVars, hOpen, hListen, hEarly, stopped>>

\* limitedRun between the start of exec and its end.
HttpLimitedStep(h) ==
  /\ hPc[h] = "running"
  /\ \/ LimitedRunGet(h)
     \/ LimitedRunGranted(h)
     \/ LimitedRunWake(h)
     \/ LimitedRunResume(h)
     \/ LimitedRunBegin(h)
  /\ hOp' = HttpOp("step", h)
  /\ UNCHANGED <<hPc, hOpen, hListen, hWritten, hEarly, stopped>>

\* limitedRun ends, with the handler's value after put(token) or with the error it
\* threw; exec settles and then / catch / finally run.
HttpLimitedEnd(h) ==
  /\ hPc[h] = "running"
  /\ lrPc[h] \in {"working", "throw"}
  /\ IF lrPc[h] = "working"
     THEN /\ InvokeEndPut(lrTok[h])
          /\ hWritten' = [hWritten EXCEPT ![h] = Append(@, "result")]
          /\ hOp' = HttpOp("value", h)
     ELSE /\ hWritten' = [hWritten EXCEPT ![h] = HttpCatch("too many queued", @)]
          /\ hOp' = HttpOp("throw", h)
          /\ UNCHANGED gateVars
  /\ ExecEnd(h)
  /\ destroyed' = [destroyed EXCEPT ![HttpNode(h)] = TRUE]
  /\ listeners' = [listeners EXCEPT ![Parent[HttpNode(h)]] = Off(@, HttpNode(h))]
  /\ hListen' = [hListen EXCEPT ![h] = FALSE]
  /\ hPc' = [hPc EXCEPT ![h] = "done"]
  /\ lrPc' = [lrPc EXCEPT ![h] = "idle"]
  /\ lrTok' = [lrTok EXCEPT ![h] = 0]
  /\ lrReq' = [lrReq EXCEPT ![h] = 0]
  /\ UNCHANGED <<hOpen, hEarly, stopped>>

HttpLimitedNext ==
  \/ \E h \in HttpReqs : HttpAvailable(h)
  \/ \E h \in HttpReqs, body \in HttpBodies : HttpLimitedHandle(h, body)
  \/ \E h \in HttpReqs : HttpLimitedStep(h)
  \/ \E h \in HttpReqs : HttpLimitedEnd(h)

\* ------------------------------------------------------------------ result frames
\* What a handler returns when it returns a value: a string, 0, false, "", null.
ResultValues == {"v", "0", "false", "", "null"}

\* JSONRPC.formatJSONRPCResult(id, result) as the frame the other peer receives.
FormatResult(id, result) ==
  [json |-> TRUE, jsonrpc |-> "2.0", id |-> id, method |-> Undefined,
   params |-> Undefined, result |-> result, error |-> Undefined]

\* The other peer's handler for request k returns v: its then callback sends
\* formatJSONRPCResult(id, v).
ResultSend(k, v) ==
  /\ callIn = NoCall
  /\ k \in InTable
  /\ callIn' = <<"result", rpcId[k], v>>
  /\ callOut' = NoCall
  /\ UNCHANGED <<gateVars, rpcVars, dispVars>>

\* The frame arrives: handleJSONRPC of the requesting peer.
ResultReceive ==
  /\ callIn[1] = "result"
  /\ ReceiveDuplex(FormatResult(callIn[2], callIn[3]))
  /\ callIn' = NoCall
  /\ callOut' = callIn

\* The requesting peer calls request().
ResultRequest(timed) ==
  /\ RpcRequest(timed)
  /\ UNCHANGED <<gateVars, dispVars, callVars>>

ResultNext ==
  \/ \E timed \in BOOLEAN : ResultRequest(timed)
  \/ \E k \in RpcReqs, v \in ResultValues : ResultSend(k, v)
  \/ ResultReceive

\* ------------------------------------------------------------------ callers of a gate
Callers == {1, 2}
\* A token whose limited is another Limited.
ForeignToken == 0
NoPut == [by |-> 0, tok |-> 0, holder |-> FALSE]

OwnInit ==
  /\ tokOwner = [token \in TokenIds |-> 0]
  /\ reqOwner = [request \in RequestIds |-> 0]
  /\ tokSeen = [token \in TokenIds |-> {}]
  /\ putBy = NoPut

\* Caller c calls get(): it holds the token it is given, or owns the request.
OwnGet(c) ==
  /\ Get
  /\ tokOwner' = IF gateOp'.ret = "token" THEN [tokOwner EXCEPT ![gateOp'.tok] = c]
                                          ELSE tokOwner
  /\ reqOwner' = IF gateOp'.ret = "queued" THEN [reqOwner EXCEPT ![gateOp'.req] = c]
                                           ELSE reqOwner
  /\ tokSeen' = IF gateOp'.ret = "token" THEN [tokSeen EXCEPT ![gateOp'.tok] = @ \cup {c}]
                                         ELSE tokSeen
  /\ UNCHANGED putBy

\* The holder of a token runs a task with it.
OwnInvoke(token) ==
  /\ InvokeBegin(token) \/ InvokeEnd(token)
  /\ UNCHANGED ownVars

\* Caller c calls put(token) with a token of this gate that it was given at some
\* time, whether it still holds it or not: a token handed to a queued request
\* belongs to the caller of that request.
OwnPut(c, token) ==
  /\ c \in tokSeen[token]
  /\ PutBody(token)
  /\ putBy' = [by |-> c, tok |-> token, holder |-> tokOwner[token] = c]
  /\ tokOwner' = IF gateOp'.ret = "granted"
                 THEN [tokOwner EXCEPT ![token] = reqOwner[gateOp'.req]]
                 ELSE IF gateOp'.ret = "idle" THEN [tokOwner EXCEPT ![token] = 0]
                 ELSE tokOwner
  /\ tokSeen' = IF gateOp'.ret = "granted"
                THEN [tokSeen EXCEPT ![token] = @ \cup {reqOwner[gateOp'.req]}]
                ELSE tokSeen
  /\ UNCHANGED reqOwner

\* Caller c calls put(token) with a token of another gate: token.limited !== this.
OwnPutForeign(c) ==
  /\ PutThrow(ForeignToken)
  /\ putBy' = [by |-> c, tok |-> ForeignToken, holder |-> FALSE]
  /\ UNCHANGED <<tokOwner, reqOwner, tokSeen>>

OwnNext ==
  \/ \E c \in Callers : OwnGet(c)
  \/ \E token \in TokenIds : OwnInvoke(token)
  \/ \E c \in Callers, token \in TokenIds : OwnPut(c, token)
  \/ \E c \in Callers : OwnPutForeign(c)

\* ------------------------------------------------------------------ specifications
\* A subsystem that a specification does not exercise stays as constructed, in one
\* fixed configuration.
GateIdle == GateInit /\ maxTokens = MaxTokens /\ maxQueued = MaxQueuedBound

RpcIdle == RpcInit

InitGate == GateInit /\ RpcIdle /\ SchedInit /\ DispInit /\ PeerInit /\ HttpInit /\ DrainInit /\ CallInit /\ IndexInit /\ BusInit /\ CounterInit /\ ChannelInit /\ RunInit /\ OwnInit

SpecGate ==
  InitGate /\ [][GateNext /\ UNCHANGED <<rpcVars, schedVars, dispVars, peerVars, httpVars, drainVars, callVars, indexVars, busVars, counterVars, chanVars, runVars, ownVars>>]_vars

InitRpc == GateIdle /\ RpcInit /\ SchedInit /\ DispInit /\ PeerInit /\ HttpInit /\ DrainInit /\ CallInit /\ IndexInit /\ BusInit /\ CounterInit /\ ChannelInit /\ RunInit /\ OwnInit

SpecRpc ==
  InitRpc /\ [][RpcNext /\ UNCHANGED <<gateVars, schedVars, dispVars, peerVars, httpVars, drainVars, callVars, indexVars, busVars, counterVars, chanVars, runVars, ownVars>>]_vars

SpecRpcIds ==
  InitRpc /\ [][RpcIdsNext /\ UNCHANGED <<gateVars, schedVars, dispVars, peerVars, httpVars, drainVars, callVars, indexVars, busVars, counterVars, chanVars, runVars, ownVars>>]_vars

InitSched == GateIdle /\ RpcIdle /\ SchedInit /\ DispInit /\ PeerInit /\ HttpInit /\ DrainInit /\ CallInit /\ IndexInit /\ BusInit /\ CounterInit /\ ChannelInit /\ RunInit /\ OwnInit

SpecSched ==
  InitSched /\ [][SchedNext /\ UNCHANGED <<gateVars, rpcVars, dispVars, peerVars, httpVars, drainVars, callVars, indexVars, busVars, counterVars, chanVars, runVars, ownVars>>]_vars

\* The tree alone, with no exec call in progress.
SpecTree ==
  InitSched /\ [][TreeNext /\ UNCHANGED <<gateVars, rpcVars, dispVars, peerVars, httpVars, drainVars, callVars, indexVars, busVars, counterVars, chanVars, runVars, ownVars>>]_vars

\* Inbound frames on an endpoint whose gate has no or one token and no or one
\* place in its queue; new Limited(0, 0) is the duplex endpoint's default.
InitDisp ==
  /\ GateInit /\ maxTokens \in {0, 1} /\ maxQueued \in {0, 1}
  /\ RpcIdle /\ SchedInit /\ DispInit /\ PeerInit /\ HttpInit /\ DrainInit /\ CallInit /\ IndexInit /\ BusInit /\ CounterInit /\ ChannelInit /\ RunInit /\ OwnInit

SpecDisp == InitDisp /\ [][DispNext /\ UNCHANGED <<schedVars, peerVars, httpVars, drainVars, callVars, indexVars, busVars, counterVars, chanVars, runVars, ownVars>>]_vars

\* One duplex peer: its socket disconnects and connects, its owner aborts and
\* resumes it or its parent, and one inbound call runs on a child scheduler.
SpecPeer ==
  InitSched /\ [][PeerNext /\ UNCHANGED <<gateVars, rpcVars, dispVars, httpVars, drainVars, callVars, indexVars, busVars, counterVars, chanVars, runVars, ownVars>>]_vars

\* Tasks that unwind, futures that settle: every continuation that is ready runs.
DrainIdle == UNCHANGED <<gateVars, rpcVars, dispVars, peerVars, httpVars, callVars, indexVars, busVars, counterVars, chanVars, runVars, ownVars>>

SpecDrain ==
  /\ InitSched
  /\ [][DrainNext /\ DrainIdle]_vars
  /\ \A t \in Tasks : WF_vars(DrainTask(t) /\ DrainIdle)

\* One task on a tree whose nodes are detached from and reattached to their parents.
SpecDetach ==
  InitSched /\ [][DetachNext(1) /\ UNCHANGED <<gateVars, rpcVars, dispVars, peerVars, httpVars, drainVars, callVars, indexVars, busVars, counterVars, chanVars, runVars, ownVars>>]_vars

\* abort called with and without a reason.
SpecAbortCall ==
  InitSched /\ [][AbortCallNext(1) /\ UNCHANGED <<gateVars, rpcVars, dispVars, peerVars, httpVars, drainVars, indexVars, busVars, counterVars, chanVars, runVars, ownVars>>]_vars

InitParse ==
  /\ GateIdle /\ RpcIdle /\ SchedInit /\ DispInit /\ PeerInit /\ HttpInit /\ DrainInit /\ IndexInit /\ BusInit /\ CounterInit /\ ChannelInit /\ RunInit /\ OwnInit
  /\ callIn \in {<<"formatJSONRPCRequest", id, method, params>> :
                    id \in FormatIds, method \in FormatMethods, params \in FormatParams}
  /\ callOut = NoCall

InitFormatError ==
  /\ GateIdle /\ RpcIdle /\ SchedInit /\ DispInit /\ PeerInit /\ HttpInit /\ DrainInit /\ IndexInit /\ BusInit /\ CounterInit /\ ChannelInit /\ RunInit /\ OwnInit
  /\ callIn \in {<<"formatJSONRPCError", codeOrError, id, message>> :
                    codeOrError \in CodeOrErrors, id \in {NoId, 1, 2}, message \in ErrorMessages}
  /\ callOut = NoCall

\* An error frame is formatted from a code or an error.
SpecFormatError ==
  InitFormatError /\ [][FormatErrorCall /\ UNCHANGED <<gateVars, rpcVars, schedVars, dispVars, peerVars, httpVars, drainVars, indexVars, busVars, counterVars, chanVars, runVars, ownVars>>]_vars

\* Sockets connect to a SocketIOServer, some under an id in use, and disconnect.
SpecIndex ==
  InitSched /\ [][IndexNext /\ UNCHANGED <<gateVars, rpcVars, schedVars, dispVars, peerVars, httpVars, drainVars, callVars, busVars, counterVars, chanVars, runVars, ownVars>>]_vars

\* Two gated calls of a duplex peer share one token while schedulers are aborted.
SpecLimitedRun ==
  InitSched /\ [][LimitedRunNext /\ UNCHANGED <<rpcVars, dispVars, peerVars, httpVars, drainVars, callVars, indexVars, busVars, counterVars, chanVars, ownVars>>]_vars

\* Concurrent requests pass checkIfAvailable and handle of an HTTP server whose gate
\* has any of the configurations.
SpecHttpLimited ==
  InitGate /\ [][HttpLimitedNext /\ UNCHANGED <<rpcVars, dispVars, peerVars, drainVars, callVars, indexVars, busVars, counterVars, chanVars, ownVars>>]_vars

\* A peer makes requests and the other peer answers them with result frames.
SpecResult ==
  InitRpc /\ [][ResultNext /\ UNCHANGED <<schedVars, peerVars, httpVars, drainVars, indexVars, busVars, counterVars, chanVars, runVars, ownVars>>]_vars

\* Two callers get and put the tokens of one gate, their own and each other's.
SpecOwners ==
  InitSched /\ [][OwnNext /\ UNCHANGED <<rpcVars, schedVars, dispVars, peerVars, httpVars, drainVars, callVars, indexVars, busVars, counterVars, chanVars, runVars>>]_vars

\* A producer pushes, the consumer takes, the owner aborts and resets a Channel.
SpecChannel ==
  InitSched /\ [][ChannelNext /\ UNCHANGED <<gateVars, rpcVars, schedVars, dispVars, peerVars, httpVars, drainVars, callVars, indexVars, busVars, counterVars, runVars, ownVars>>]_vars

\* A Counter is increased, decreased and waited for.
SpecCounter ==
  InitSched /\ [][CounterNext /\ UNCHANGED <<gateVars, rpcVars, schedVars, dispVars, peerVars, httpVars, drainVars, callVars, indexVars, busVars, chanVars, runVars, ownVars>>]_vars

\* One node of the bus is constructed and receives messages from other nodes.
SpecBus ==
  InitSched /\ [][BusNext /\ UNCHANGED <<schedVars, peerVars, httpVars, drainVars, indexVars, counterVars, chanVars, runVars, ownVars>>]_vars

\* A request frame is formatted and parsed back.
SpecParse ==
  InitParse /\ [][ParseFormatted /\ UNCHANGED <<gateVars, rpcVars, schedVars, dispVars, peerVars, httpVars, drainVars, indexVars, busVars, counterVars, chanVars, runVars, ownVars>>]_vars

\* Two tasks at a time, on any nodes of the tree.
SpecTasks ==
  InitSched /\ [][TasksNext /\ UNCHANGED <<gateVars, rpcVars, dispVars, peerVars, httpVars, drainVars, callVars, indexVars, busVars, counterVars, chanVars, runVars, ownVars>>]_vars

\* One task that suspends through run and race on a tree that is aborted and resumed.
SpecRun ==
  InitSched /\ [][RunNext(1) /\ UNCHANGED <<gateVars, rpcVars, dispVars, peerVars, httpVars, drainVars, callVars, indexVars, busVars, counterVars, chanVars, runVars, ownVars>>]_vars

\* Two HTTP requests in flight on one server whose sockets close and whose owner
\* aborts and resumes it.
SpecHttp ==
  InitSched /\ [][HttpNext /\ UNCHANGED <<gateVars, rpcVars, dispVars, peerVars, drainVars, callVars, indexVars, busVars, counterVars, chanVars, runVars, ownVars>>]_vars

\* Requests arrive at an HTTP server that is stopped and started again.
SpecHttpStop ==
  InitSched /\ [][HttpStopNext /\ UNCHANGED <<gateVars, rpcVars, dispVars, peerVars, drainVars, callVars, indexVars, busVars, counterVars, chanVars, runVars, ownVars>>]_vars

\* The peer's socket events and aborts next to its outstanding requests.
InitPeerRpc == GateIdle /\ RpcInit /\ SchedInit /\ DispInit /\ PeerInit /\ HttpInit /\ DrainInit /\ CallInit /\ IndexInit /\ BusInit /\ CounterInit /\ ChannelInit /\ RunInit /\ OwnInit

SpecPeerRpc == InitPeerRpc /\ [][PeerRpcNext /\ UNCHANGED <<gateVars, dispVars, httpVars, drainVars, callVars, indexVars, busVars, counterVars, chanVars, runVars, ownVars>>]_vars

\* ================================================================== claims
gateState == <<maxTokens, maxQueued, idle, queue, limitedCount, tokenStatus, held,
               nextReq, reqStatus, reqList, reqPromise, reqSettles, reqRemoved>>

\* C2: for a gate with maxTokens = T and maxQueued = Q, after any sequence of get,
\* put of a held token and cancel, outstanding tokens (parallels) plus idle tokens
\* equal T and the number of queued requests is at most Q.
C2_TokenConservation ==
  /\ parallels + Len(idle) = maxTokens
  /\ queued <= maxQueued

\* C2 witness: every token is out, a put has granted one to a queued request and
\* another request has been canceled.
C2_Witness ==
  /\ maxTokens = MaxTokens
  /\ parallels = MaxTokens
  /\ Len(idle) = 0
  /\ \E r \in RequestIds : reqStatus[r] = "Finished"
  /\ \E r \in RequestIds : reqStatus[r] = "Canceled"

\* C5: when no token is idle and maxQueued requests are queued, get fails with
\* 'too many queued' and changes nothing: outstanding count, idle list and queue
\* are as before the call.
C5_TooManyQueued ==
  [][(Len(idle) = 0 /\ Len(queue) >= maxQueued /\ gateOp'.op = "get")
       => (gateOp'.ret = "too many queued" /\ UNCHANGED gateState)]_vars

\* C5 witness: a get has just failed on a gate whose queue of two is full.
C5_Witness ==
  /\ gateOp.op = "get"
  /\ gateOp.ret = "too many queued"
  /\ maxQueued = 2
  /\ Len(queue) = 2
  /\ Len(idle) = 0

\* C6: every queued request leaves the queue exactly once and ends finished (future
\* resolved with a token) or canceled (future rejected with the cancel reason);
\* cancel on a request already finished or canceled changes nothing.
C6_RequestStates ==
  \A r \in RequestIds :
    /\ Occurrences(r, queue) <= 1
    /\ (reqStatus[r] = "none") <=> (r > nextReq)
    /\ reqStatus[r] = "Queued" <=> InSeq(r, queue)
    /\ reqStatus[r] = "Queued" =>
         reqRemoved[r] = 0 /\ reqSettles[r] = 0 /\ reqPromise[r].state = "pending"
    /\ reqStatus[r] = "Finished" =>
         /\ reqRemoved[r] = 1 /\ reqSettles[r] = 1
         /\ reqPromise[r].state = "resolved" /\ reqPromise[r].val \in 1 .. maxTokens
    /\ reqStatus[r] = "Canceled" =>
         /\ reqRemoved[r] = 1 /\ reqSettles[r] = 1
         /\ reqPromise[r].state = "rejected" /\ reqPromise[r].val \in CancelReasons

C6_RequestSteps ==
  \A r \in RequestIds :
    /\ (reqStatus[r] = "Queued" /\ gateOp'.op = "cancel" /\ gateOp'.req = r) =>
          /\ reqStatus'[r] = "Canceled"
          /\ reqPromise'[r] = [state |-> "rejected", val |-> gateOp'.reason]
    /\ reqStatus[r] \in {"Finished", "Canceled"} =>
          /\ reqStatus'[r] = reqStatus[r]
          /\ reqPromise'[r] = reqPromise[r]
          /\ (gateOp'.op = "cancel" /\ gateOp'.req = r) => UNCHANGED gateState

C6_ExactlyOnce == [](C6_RequestStates) /\ [][C6_RequestSteps]_vars

\* C6 witness: one request was finished by a put, another canceled, and the last
\* call was a cancel of a request that had already been settled.
C6_Witness ==
  /\ \E r \in RequestIds : reqStatus[r] = "Finished"
  /\ \E r \in RequestIds : reqStatus[r] = "Canceled"
  /\ gateOp.op = "cancel"
  /\ gateOp.ret \in {"noop", "invalid request"}

\* The request that has waited longest among those still queued: request nodes are
\* numbered in the order get() made them.
LongestWaiting == CHOOSE r \in RequestIds :
  /\ reqStatus[r] = "Queued"
  /\ \A q \in RequestIds : reqStatus[q] = "Queued" => r <= q

\* C7: a put while requests are queued hands that token to the request that has
\* waited longest among those not canceled and leaves the idle count and the
\* outstanding count unchanged; the token rejoins the idle pool only when the queue
\* is empty.
C7_PutGrantsHead ==
  [][(gateOp'.op = "put" /\ gateOp'.ret # "invalid token") =>
       IF Len(queue) > 0
       THEN /\ gateOp'.ret = "granted"
            /\ gateOp'.req = LongestWaiting
            /\ reqStatus'[LongestWaiting] = "Finished"
            /\ reqPromise'[LongestWaiting] = [state |-> "resolved", val |-> gateOp'.tok]
            /\ \A q \in RequestIds \ {LongestWaiting} :
                 reqStatus'[q] = reqStatus[q] /\ reqPromise'[q] = reqPromise[q]
            /\ idle' = idle
            /\ ~InSeq(gateOp'.tok, idle')
            /\ parallels' = parallels
       ELSE /\ gateOp'.ret = "idle"
            /\ idle' = Append(idle, gateOp'.tok)
            /\ parallels' = parallels - 1]_vars

\* C7 witness: a put has granted its token to request 2 after request 1, queued
\* before it, was canceled, and request 3 still waits.
C7_Witness ==
  /\ gateOp.op = "put"
  /\ gateOp.ret = "granted"
  /\ gateOp.req = 2
  /\ reqStatus[1] = "Canceled"
  /\ reqStatus[3] = "Queued"
  /\ reqPromise[2] = [state |-> "resolved", val |-> gateOp.tok]

rpcState == <<autoId, reqs, rpcCount, rpcN, rpcId, rpcPromise, rpcTimer, rpcSettles,
              rpcHow>>

\* C3: after the correlator's abort(r) the pending table is empty, the pending count
\* is 0 and every future that was pending is rejected with exactly r; nothing that
\* arrives later for one of those ids (a response, a transport error) changes a
\* settled future or calls its resolvers again.
C3_AbortStep ==
  \A r \in RpcAbortReasons :
    \/ /\ \A id \in RpcIds : reqs'[id] = 0
       /\ requests' = 0
       /\ \A k \in RpcReqs :
            (k <= rpcN /\ rpcPromise[k].state = "pending")
              => rpcPromise'[k] = [state |-> "rejected", val |-> r]
    \/ ~RpcAbort(r)

C3_SettledStays ==
  \A k \in RpcReqs :
    rpcPromise[k].state # "pending" =>
      /\ rpcPromise'[k] = rpcPromise[k]
      /\ rpcSettles'[k] = rpcSettles[k]

C9_ResponseStep ==
  \A id \in RpcIds, f \in RpcFrames :
    IF reqs[id] = 0
    THEN (rpcRet' = FALSE /\ UNCHANGED rpcState)
           \/ ~RpcResponse(id, f.result, f.error)
    ELSE LET k == reqs[id] IN
           \/ /\ reqs'[id] = 0
              /\ rpcTimer'[k] # "armed"
              /\ rpcPromise'[k] = IF Truthy(f.error)
                                    THEN [state |-> "rejected", val |-> f.error]
                                    ELSE [state |-> "resolved", val |-> f.result]
              /\ rpcRet' = TRUE
           \/ ~RpcResponse(id, f.result, f.error)

C9_TimerOnlyWhilePending ==
  \A k \in RpcReqs : rpcTimer[k] = "armed" => (k <= rpcN /\ reqs[rpcId[k]] = k)

C9_DeliverResponse == [][C9_ResponseStep]_vars /\ [](C9_TimerOnlyWhilePending)

\* C9 witness: a timed request was answered (its timer is cleared, its future
\* resolved), another timed out, and the last response was refused.
C9_Witness ==
  /\ rpcRet = FALSE
  /\ \E k \in RpcReqs :
       rpcHow[k] = "response" /\ rpcTimer[k] = "cleared" /\ rpcPromise[k].state = "resolved"
  /\ \E k \in RpcReqs : rpcHow[k] = "timeout"

\* The nodes from n up to the root that hold a reason of their own.
Holders(n) == {m \in Chain(n) : ownReason[m] # Undefined}

C4_ReasonOfNearest ==
  \A n \in Nodes :
    /\ aborted(n) <=> Holders(n) # {}
    /\ IF Holders(n) = {}
       THEN reason(n) = Undefined
       ELSE \E m \in Holders(n) : Holders(n) \subseteq Chain(m) /\ reason(n) = ownReason[m]

C4_ResumeUnderAncestor ==
  \A n \in Nodes :
    (SchedResume(n) /\ Parent[n] # 0 /\ Holders(Parent[n]) # {}) =>
      (aborted(n)' /\ reason(n)' = reason(Parent[n]))

\* C4: a node reports aborted exactly when it or an ancestor holds a reason, its
\* reason is its own when set and otherwise that of the nearest ancestor holding
\* one, and resume() on a child under an aborted ancestor leaves the child aborted.
C4_ReadThrough == [](C4_ReasonOfNearest) /\ [][C4_ResumeUnderAncestor]_vars

\* The grandchild has just been resumed while its parent holds r1 and the root
\* holds r2: it still reports aborted, with the nearer reason r1, and the root's
\* other child reports r2.
C4_Witness ==
  /\ resumedBelow
  /\ ownReason[4] = Undefined /\ ownReason[2] = "r1" /\ ownReason[1] = "r2"
  /\ aborted(4) /\ reason(4) = "r1" /\ reason(3) = "r2"

\* abort(r) on n: every descendant reports aborted, and every race wait listed on
\* n or on a descendant subscribed to it is resolved by the call itself.
C1_AbortStep ==
  \A n \in Nodes, r \in Reasons :
    SchedAbort(n, r) =>
      /\ \A d \in Nodes : n \in Chain(d) => aborted(d)'
      /\ \A t \in Tasks :
           (tPc[t] = "race" /\ tNode[t] \in Signalled(n)) => tRace'[t].state = "resolved"

\* A task whose race wait was resolved by an abort is resumed with ok=false and a
\* reason as its error.
C1_WokenStep ==
  \A t \in Tasks :
    (TaskWake(t) /\ tRace[t].src = "abort") =>
      (tArg'[t].ok = FALSE /\ tArg'[t].error \in Reasons)

\* A RaceRequest yielded while the node is aborted is answered at once, with
\* ok=false, and no wait is registered.
C1_YieldStep ==
  \A t \in Tasks :
    (GenYieldRace(t) /\ aborted(tNode[t])) =>
      (tPc'[t] = "gen" /\ tArg'[t].ok = FALSE /\ tArg'[t].error # Undefined
       /\ races' = races)

C1_AbortStepHolds == [][C1_AbortStep]_vars

C1_YieldStepHolds == [][C1_YieldStep]_vars

\* C1: after abort(r) every descendant reports aborted, and every task of the
\* subtree that is in a race wait at that moment, or yields a RaceRequest while
\* the node is still aborted, is resumed with ok=false and a reason as its error
\* without its wrapped future having to resolve.
C1_AbortFanOut == [][C1_AbortStep /\ C1_WokenStep /\ C1_YieldStep]_vars

\* The last dispatcher step acted on a notify: it received one, or it ended or
\* aborted a call that a notify had started.
OnNotify ==
  \/ dispOp.op = "receive" /\ dispOp.type = "notify"
  \/ dispOp.op \in {"end", "abort"} /\ dispOp.id = NoId

\* C10: whatever the dispatcher does on account of a well-formed notify (refusing
\* it because the gate is saturated or the method unknown, or finishing its
\* handler with a value, an envelope or a failure), it sends the sender no result
\* frame and no error frame.
C10_NotifyNeverAnswered ==
  OnNotify => \A i \in 1 .. Len(sentNow) : sentNow[i].type \notin {"result", "error"}

\* The handler of a notify has just failed and nothing was sent.
C10_Witness ==
  /\ dispOp.op = "end" /\ dispOp.id = NoId /\ dispOp.why = "throw"
  /\ sentNow = <<>>

\* The other cases the claim names: a notify refused by a saturated gate, a notify
\* for an unregistered method, a notify whose handler returned a plain value.
C10_OtherCases ==
  \/ dispOp.type = "notify" /\ dispOp.why = "saturated" /\ sentNow = <<>>
  \/ dispOp.type = "notify" /\ dispOp.why = "not found" /\ sentNow = <<>>
  \/ dispOp.op = "end" /\ dispOp.id = NoId /\ dispOp.why = "value" /\ sentNow = <<>>

C11_EnvelopeStep ==
  \A k \in Calls, outcome \in HandlerOutcomes :
    (/\ outcome.kind = "envelopeNotify" /\ dId[k] # NoId
     /\ dispOp'.op = "end"
     /\ HandlerEnd(k, outcome)) =>
      /\ sentNow' = <<NotifyFrame(outcome.method)>>
      /\ dPc'[k] = "none"

\* C11: when the handler of an id-bearing request ends with the envelope carrying
\* a nested notify, exactly one frame is sent, the notify with that method, and no
\* result or error frame for the id; the call is over, so nothing follows.
C11_EnvelopeNotify == [][C11_EnvelopeStep]_vars

\* An id-bearing request has just ended with an envelope carrying notify n2.
C11_Witness ==
  /\ dispOp.op = "end" /\ dispOp.why = "envelopeNotify" /\ dispOp.id = 1
  /\ sentNow = <<NotifyFrame("n2")>>

\* No idle token and no place left in the queue: the next get() would throw.
GateSaturated == Len(idle) = 0 /\ ~(Len(queue) + 1 <= maxQueued)

C12_SaturatedStep ==
  \A data \in InboundData :
    (GateSaturated /\ dispOp'.op = "receive" /\ ReceiveDuplex(data)) =>
      LET p == Parse(data) IN
        /\ p.type = "request" =>
              /\ sentNow' = <<ErrorFrame(CodeSever, p.id)>>
              /\ dPc' = dPc /\ UNCHANGED gateVars
        /\ p.type = "notify" =>
              /\ sentNow' = <<>>
              /\ dPc' = dPc /\ UNCHANGED gateVars

\* C12: on a duplex peer whose gate is saturated an id-bearing request is answered
\* in the receive step itself with one error frame of code -32000, no call is
\* started and the gate is left as it was; a notify is dropped with no frame sent.
C12_SaturatedRefusal == [][C12_SaturatedStep]_vars

\* A request has just been refused with -32000 while the only queue place is taken
\* and there is no idle token.
C12_Witness ==
  /\ dispOp.op = "receive" /\ dispOp.type = "request" /\ dispOp.why = "saturated"
  /\ sentNow = <<ErrorFrame(CodeSever, 1)>>
  /\ GateSaturated /\ Len(queue) = 1
  /\ \E k \in Calls : dPc[k] = "queued"

C13_UngatedStep ==
  \A data \in InboundData :
    LET p == Parse(data) IN
      (/\ ReceiveDuplex(data)
       /\ p.type = "request"
       /\ p.method \in DOMAIN Handlers
       /\ Handlers[p.method] = "plain") =>
        /\ sentNow' = <<>>
        /\ \E k \in Calls : dPc[k] = "none" /\ dPc'[k] = "handler" /\ dId'[k] = p.id

C13_AnswerStep ==
  \A k \in Calls :
    (HandlerEnd(k, Outcome("value", Undefined)) /\ dId[k] # NoId) =>
      sentNow' = <<ResultFrame(dId[k])>>

\* C13: on a duplex peer an id-bearing request for a handler that is not gated
\* is handed to its handler whatever the state of the gate, the default gate of a
\* peer constructed without one included, and a value the handler returns is sent
\* back as the result for the id.
C13_UngatedDispatched == [][C13_UngatedStep /\ C13_AnswerStep]_vars

\* The peer's scheduler holds and inherits no reason, is not destroyed and is in
\* its parent's listener list exactly once.
PeerLive ==
  /\ reason(Peer) = Undefined
  /\ ~destroyed[Peer]
  /\ Occurrences(Peer, listeners[Parent[Peer]]) = 1

C14_ReconnectStep ==
  /\ PeerDisconnect => peerOp'.emitted = <<"disconnect">>
  /\ PeerConnect => peerOp'.emitted = <<"connect">>
  /\ (PeerConnect /\ sinceDisconnect = "clean") => PeerLive'
  /\ \A t \in Tasks :
       (PeerCallStart(t) /\ sinceDisconnect = "reconnected") =>
         tArg'[t] = [ok |-> TRUE, error |-> Undefined, result |-> Undefined]

C15_DisconnectStep ==
  PeerDisconnect =>
    /\ UNCHANGED <<reqs, rpcCount, rpcPromise, rpcTimer, rpcSettles, rpcHow>>
    /\ \A k \in InTable : rpcPromise'[k] = Pending /\ rpcTimer'[k] = rpcTimer[k]

C15_SettleStep ==
  \A k \in RpcReqs :
    (rpcPromise[k] = Pending /\ rpcPromise'[k] # Pending) =>
      \/ RpcResponse(rpcId[k], "v", Undefined) /\ rpcPromise'[k].state = "resolved"
      \/ RpcTimerFire(k) /\ rpcPromise'[k] = Settle(Pending, "rejected", RpcTimeoutError)
      \/ \E r \in PeerReasons :
           PeerAbort(r) /\ rpcPromise'[k] = Settle(Pending, "rejected", r)

C15_DisconnectKeepsPending == [][C15_DisconnectStep /\ C15_SettleStep]_vars

\* The disconnect event has just been handled with a timed request outstanding.
C15_Witness ==
  /\ peerOp.op = "disconnect"
  /\ destroyed[Peer]
  /\ \E k \in InTable : rpcPromise[k] = Pending /\ rpcTimer[k] = "armed"

\* A close of the socket of a request in progress aborts the request's scheduler
\* with "disconnected".
C16_CloseStep ==
  \A h \in HttpReqs :
    (HttpSocketClose(h) /\ hPc[h] = "running") => ownReason'[HttpNode(h)] = Disconnected

\* C16: when the socket of an HTTP request closes before the request completes,
\* the request's scheduler is aborted with "disconnected" and nothing is written for
\* the request, neither a result nor an error, however the handler ends.
C16_ClosedWritesNothing ==
  /\ [](\A h \in HttpReqs : hEarly[h] => hWritten[h] = <<>>)
  /\ [][C16_CloseStep]_vars

\* Node n and the nodes below it.
Subtree(n) == {m \in Nodes : n \in Chain(m)}

C17_AbortStep ==
  \A n \in Nodes, r \in Reasons \cup {Disconnected} :
    SchedAbort(n, r) =>
      \A m \in Nodes \ Subtree(n) :
        /\ reason(m)' = reason(m)
        /\ aborted(m)' = aborted(m)
        /\ races'[m] = races[m]
        /\ \A t \in Tasks : InSeq(t, races[m]) => tRace'[t] = tRace[t]

C17_CloseStep ==
  \A h \in HttpReqs :
    HttpSocketClose(h) =>
      \A g \in HttpReqs \ {h} :
        /\ aborted(HttpNode(g))' = aborted(HttpNode(g))
        /\ hPc'[g] = hPc[g] /\ tPc'[g] = tPc[g]
        /\ tArg'[g] = tArg[g] /\ tRace'[g] = tRace[g]
        /\ hWritten'[g] = hWritten[g]

\* C17: abort(r) on a node changes nothing in the nodes outside its subtree, its
\* ancestors and siblings: their reason, their aborted flag and their pending race
\* waits stay as they were. The abort of one HTTP request's scheduler by the close
\* of its socket leaves the other request in flight as it was.
C17_AbortStaysBelow == [][C17_AbortStep /\ C17_CloseStep]_vars

\* The socket of request 1 has just closed and aborted its scheduler while
\* request 2 waits in a race on the sibling scheduler.
C17_Witness ==
  /\ hOp = HttpOp("close", 1)
  /\ ownReason[HttpNode(1)] = Disconnected
  /\ tPc[2] = "race" /\ tRace[2].state = "pending"
  /\ InSeq(2, races[HttpNode(2)])
  /\ ~aborted(HttpNode(2))

\* A task suspended through run stays suspended over an abort; only the settling
\* of its future lets it go on, and if the node is aborted when the future is
\* fulfilled the task is resumed with ok=false.
C18_RunStep ==
  \A t \in Tasks :
    tPc[t] = "run" =>
      /\ \A n \in Nodes, r \in Reasons :
           SchedAbort(n, r) => (tPc'[t] = "run" /\ tArg'[t] = tArg[t])
      /\ tPc'[t] # "run" => \E outcome \in FutureOutcomes : GenRunSettle(t, outcome)
      /\ \A outcome \in FutureOutcomes :
           (GenRunSettle(t, outcome) /\ outcome[1] = Undefined /\ aborted(tNode[t])) =>
             (tArg'[t].ok = FALSE /\ tArg'[t].error = reason(tNode[t]))

\* A task whose race wait was ended by an abort while its future is still pending
\* is resumed with ok=false.
C18_RaceStep ==
  \A t \in Tasks :
    (TaskWake(t) /\ tRace[t].src = "abort" /\ tFut[t] = "pending") => tArg'[t].ok = FALSE

C18_RunStepHolds == [][C18_RunStep]_vars

\* C18: a task suspended through run on a pending future is not resumed by an
\* abort until the future settles and is then resumed with ok=false; a task
\* suspended through race is resumed with ok=false by the abort while its future is
\* still pending.
C18_RunWaitsRaceUnwinds == [][C18_RunStep /\ C18_RaceStep]_vars

\* Node m and its ancestors, read off the parent links.
RECURSIVE Above(_)
Above(m) == IF Parent[m] = 0 THEN {m} ELSE {m} \cup Above(Parent[m])

\* The exec calls in progress on node n and on the nodes below it.
InProgress(n) == {t \in Tasks : tPc[t] # "idle" /\ n \in Above(tNode[t])}

C19_ExecStep ==
  \A t \in Tasks :
    /\ \A n \in Nodes :
         TaskStart(t, n) =>
           \A m \in Nodes :
             schedCount'[m] = IF m \in Above(n) THEN schedCount[m] + 1 ELSE schedCount[m]
    /\ GenDone(t) =>
         \A m \in Nodes :
           schedCount'[m] = IF m \in Above(tNode[t]) THEN schedCount[m] - 1
                                                      ELSE schedCount[m]

\* C19: the live-task counter of every node is the number of exec calls in
\* progress on the node and on all its descendants; a call raises the counter of
\* its node and of every ancestor by one when it starts and lowers them by one
\* when its generator returns or throws.
C19_CounterCounts ==
  /\ [](\A n \in Nodes : schedCount[n] = Cardinality(InProgress(n)))
  /\ [][C19_ExecStep]_vars

\* Two calls are in progress, one on the deepest node and one on a sibling branch.
C19_Witness ==
  /\ tPc[1] # "idle" /\ tNode[1] = 4
  /\ tPc[2] # "idle" /\ tNode[2] = 3
  /\ schedCount = <<2, 1, 1, 1>>

\* C20: with tasks that unwind when resumed with ok=false and run-wrapped futures
\* that settle, a wait on the parent that follows parent.abort(r) completes, and
\* once it has completed the parent and every node below it have a live-task count
\* of 0 and report aborted.
C20_AbortDrains ==
  /\ (drain = "waiting") ~> (drain = "resolved")
  /\ [](drain \in {"resolved", "immediate"} =>
         \A n \in Nodes : schedCount[n] = 0 /\ aborted(n))

\* The wait was pending while tasks were in progress and has been resolved.
C20_Witness == drain = "resolved"

\* An abort of the parent of a node on which a task waits in a race ends the wait
\* if the node is not destroyed and leaves it alone if the node is destroyed.
C21_ParentAbortStep ==
  \A t \in Tasks :
    (/\ tPc[t] = "race" /\ tRace[t].state = "pending"
     /\ Parent[tNode[t]] # 0
     /\ \E r \in Reasons : SchedAbort(Parent[tNode[t]], r)) =>
      IF destroyed[tNode[t]]
      THEN tRace'[t] = tRace[t]
      ELSE tRace'[t].state = "resolved" /\ tRace'[t].src = "abort"

\* C21: whatever destroy() and recover() calls were made, a node that is not
\* destroyed is in its parent's listener list exactly once and a destroyed node is
\* not in it; an abort of the parent ends the race waits of a node that is not
\* destroyed and does not end those of a destroyed node.
C21_SubscribedOnce ==
  /\ [](\A n \in Nodes :
          Parent[n] # 0 =>
            Occurrences(n, listeners[Parent[n]]) = IF destroyed[n] THEN 0 ELSE 1)
  /\ [][C21_ParentAbortStep]_vars

\* Node 2 was destroyed and recovered (it is now listed after node 3) and the
\* abort of its parent has ended the race wait of the task running on it.
C21_Witness ==
  /\ listeners[1] = <<3, 2>> /\ ~destroyed[2]
  /\ ownReason[1] = "r1" /\ ownReason[2] = Undefined
  /\ tNode[1] = 2 /\ tPc[1] = "race"
  /\ tRace[1].state = "resolved" /\ tRace[1].src = "abort"

\* An abort of the parent of a destroyed node that was not aborted leaves the
\* node's task alone: its race wait is as it was and the node still reports not
\* aborted, so the task's next resumption is one with ok=true.
C22_DetachedStep ==
  \A t \in Tasks :
    (/\ tPc[t] # "idle"
     /\ Parent[tNode[t]] # 0
     /\ destroyed[tNode[t]] /\ ~aborted(tNode[t])
     /\ \E r \in Reasons : SchedAbort(Parent[tNode[t]], r)) =>
      /\ tRace'[t] = tRace[t]
      /\ ~aborted(tNode[t])'
      /\ NextArg(tNode[t], Undefined, "v")'.ok

\* A resumption of a task on a destroyed node that holds no reason of its own
\* passes ok=false only for an error of the task's own future.
C22_ResumeStep ==
  \A t \in Tasks :
    (/\ destroyed[tNode[t]] /\ ownReason[tNode[t]] = Undefined
     /\ (GenYieldPlain(t, "v") \/ TaskWake(t))) =>
      (tArg'[t].ok \/ Truthy(tRace[t].error))

\* C22: after destroy() of a node an abort posted on its parent does not reach
\* the tasks still running in the node: they are not woken and they are not resumed
\* with ok=false on account of the parent's reason.
C22_DestroyedNotReached == [][C22_DetachedStep /\ C22_ResumeStep]_vars

\* C23: abort called with the reason undefined throws and changes nothing: every
\* node's reason is as it was, no race wait is resolved, no listener list, task or
\* counter is touched.
C23_AbortUndefinedStep ==
  \A n \in Nodes :
    SchedAbortCall(n, Undefined) =>
      /\ callOut' = <<"throw", "invalid reason">>
      /\ ownReason' = ownReason
      /\ \A m \in Nodes : reason(m)' = reason(m)
      /\ tRace' = tRace
      /\ UNCHANGED schedVars

C23_AbortUndefinedRejected == [][C23_AbortUndefinedStep]_vars

\* abort(undefined) has just thrown on the root while a task below it waits in a
\* race that is still pending.
C23_Witness ==
  /\ callIn = <<"abort", 1, Undefined>>
  /\ callOut = <<"throw", "invalid reason">>
  /\ tPc[1] = "race" /\ tRace[1].state = "pending"
  /\ tNode[1] = 4 /\ ~aborted(4)

\* The positions of the result and error frames of a sequence that carry an id.
Responses(sent) ==
  {i \in 1 .. Len(sent) : sent[i].type \in {"result", "error"} /\ sent[i].id # NoId}

C24_ReplyStep ==
  /\ Cardinality(Responses(sentNow')) <= 1
  /\ \A i \in Responses(sentNow') :
       \/ /\ dispOp'.op = "receive"
          /\ dispOp'.why \in {"saturated", "not found", "too many queued"}
          /\ dispOp'.id = sentNow'[i].id
          /\ dPc' = dPc
       \/ /\ dispOp'.op \in {"end", "abort"}
          /\ \E k \in Calls :
               /\ dPc[k] \in {"handler", "queued"} /\ dId[k] = sentNow'[i].id
               /\ dPc'[k] = "none" /\ dId'[k] = NoId
  /\ (\E k \in Calls : dPc'[k] # "none" /\ dPc'[k] # dPc[k]) => Responses(sentNow') = {}

\* C24: for an id-bearing request at most one result or error frame carrying its
\* id is sent. A request that is refused is answered by the one error frame of the
\* receive step and no call is started for it; a request whose call was started is
\* answered by no step that starts or continues the call, only by the step in
\* which its handler has returned or failed, which sends at most one such frame
\* and ends the call.
C24_OneReplyAfterHandler == [][C24_ReplyStep]_vars

\* The handler of request 1 has just returned an envelope carrying a response and
\* the one result frame for id 1 was sent.
C24_Witness ==
  /\ dispOp.op = "end" /\ dispOp.why = "envelopeResponse" /\ dispOp.id = 1
  /\ sentNow = <<ResultFrame(1)>>
  /\ \A k \in Calls : dPc[k] = "none"

\* C25: an inbound frame that carries no id and that parse rejects (a notify with
\* a wrong jsonrpc version, a string that is no JSON) is dropped: the receive step
\* sends no frame of any kind.
C25_MalformedStep ==
  \A data \in InboundData :
    (/\ data.id = NoId /\ Parse(data).type = "throw"
     /\ dispOp'.op = "receive"
     /\ (ReceiveDuplex(data) \/ ReceiveBus("me", data))) =>
      sentNow' = <<>>

C25_MalformedDropped == [][C25_MalformedStep]_vars
\* C26: for every id, method and params, parsing the frame formatJSONRPCRequest
\* builds from them returns the type "request" with that id, method and params.
C26_RoundTrip ==
  (callIn[1] = "formatJSONRPCRequest" /\ callOut # NoCall)
    => callOut = <<"return", "request", callIn[2], callIn[3], callIn[4]>>

\* C27: formatJSONRPCError always yields an error whose code is an integer and
\* whose message is a string; a number keeps that code, a string gives Internal
\* with the string as message, a JSONRPCError keeps its code and message, another
\* Error gives Internal with its message.
C27_Normalised ==
  (callIn[1] = "formatJSONRPCError" /\ callOut # NoCall) =>
    LET in == callIn[2]
        out == callOut[2]
    IN /\ out.code \in Int
       /\ out.message # Undefined
       /\ in.kind = "number" => out.code = in.code
       /\ in.kind = "string" => out.code = CodeInternal /\ out.message = in.message
       /\ in.kind = "JSONRPCError" => out.code = in.code /\ out.message = in.message
       /\ in.kind = "Error" => out.code = CodeInternal /\ out.message = in.message
       /\ in.kind = "other" => out.code = CodeInternal

\* C28: ids are handed out in increasing order from MIN and wrap to MIN after MAX,
\* and while fewer than MAX - MIN requests are outstanding the id given to a new
\* request is not the id of a request still in the table, so no entry is overwritten.
C28_RequestStep == \E timed \in BOOLEAN : RpcRequestAgain(timed)
C28_Outstanding == Cardinality({k \in 1 .. rpcN : rpcPromise[k].state = "pending"})
C28_IdsNeverCollide ==
  [][C28_RequestStep =>
       /\ autoId' = IF autoId = MaxSafeInteger THEN MinSafeInteger ELSE autoId + 1
       /\ C28_Outstanding < MaxSafeInteger - MinSafeInteger => reqs[autoId] = 0]_vars

\* C29: every socket id is indexed to the latest peer connected under it that is
\* still live (not closed by the server, not disconnected), or to none; a peer
\* that is replaced is aborted with "repeat socket id", stopped and closed before
\* the new peer is set, and the disconnect of a replaced peer leaves the entry of
\* its replacement alone.
C29_Live(sid) == {p \in 1 .. ixN : ixId[p] = sid /\ ixState[p] = "connected"}
C29_Latest(sid) ==
  IF C29_Live(sid) = {} THEN 0
  ELSE CHOOSE p \in C29_Live(sid) : \A q \in C29_Live(sid) : q <= p
C29_Indexed == \A sid \in SocketIds : clients[sid] = C29_Latest(sid)
C29_ReplaceStep ==
  (ixOp'.op = "handle" /\ ixOp'.old # 0) =>
    /\ ixReason'[ixOp'.old] = RepeatSocketId
    /\ ixState'[ixOp'.old] \in {"closing", "disconnected"}
    /\ ~ixListening'[ixOp'.old]
    /\ SubSeq(ixOp'.steps, 1, 3) = <<"abort", "stop", "close">>
    /\ ixOp'.steps[Len(ixOp'.steps) - 1] = "set"
    /\ clients'[ixId'[ixOp'.peer]] = ixOp'.peer
C29_LateDisconnectStep ==
  \A p \in IndexPeers :
    (ixState[p] = "closing" /\ ixOp'.op = "disconnect" /\ IndexDisconnect(p))
      => clients' = clients
C29_IndexLatestLive ==
  /\ [](C29_Indexed)
  /\ [][C29_ReplaceStep /\ C29_LateDisconnectStep]_vars
\* A replaced peer disconnects after its replacement was indexed, and the
\* replacement is still indexed.
C29_Witness ==
  /\ ixOp.op = "disconnect"
  /\ ixReason[ixOp.peer] = RepeatSocketId
  /\ clients[ixId[ixOp.peer]] > ixOp.peer

\* C30: a request that arrives while the server is stopped is answered with 503
\* and no handler is started for it; stop() leaves the requests in progress as
\* they are and they end as they would otherwise; a request that arrives after
\* start() is dispatched.
C30_ArriveStep ==
  \A h \in HttpReqs :
    (hPc[h] = "idle" /\ hPc'[h] # "idle") =>
      IF stopped
      THEN hWritten'[h] = <<"503">> /\ hPc'[h] = "done" /\ UNCHANGED schedVars
      ELSE /\ hOp' = HttpOp("handle", h)
           /\ hWritten'[h] # <<"503">>
           /\ tPc'[h] # "idle" <=> hPc'[h] = "running"
C30_StopStep ==
  (hOp'.op \in {"stop", "start"}) =>
    UNCHANGED <<schedVars, hPc, hOpen, hListen, hWritten>>
C30_InFlightStep ==
  \A h \in HttpReqs :
    (stopped /\ hPc[h] = "running" /\ hPc'[h] = "done") =>
      hWritten'[h] = IF hOp'.op = "value" THEN <<"result">>
                     ELSE IF hOp'.op = "undefined" THEN <<>>
                     ELSE <<"error">>
C30_StoppedRefuses == [][C30_ArriveStep /\ C30_StopStep /\ C30_InFlightStep]_vars
\* One request was refused with 503 while the server was stopped, and the step
\* just taken has dispatched the other to its handler, after start().
C30_Witness ==
  /\ ~stopped
  /\ \E h, g \in HttpReqs :
       /\ hWritten[h] = <<"503">>
       /\ hOp = HttpOp("handle", g)
       /\ hPc[g] = "running"
       /\ tPc[g] # "idle"

\* C31: a bus node never has the name "all"; a message whose to is neither "all"
\* nor the node's name starts no handler, reaches no correlator and is answered
\* with nothing, any other message is taken up; and whatever is posted for a
\* message, at once or when its handler ends, is addressed to that message's from.
C31_Named == busName # "all"
C31_HandleStep ==
  (callIn'[1] = "message") =>
    IF callIn'[3] = "all" \/ callIn'[3] = busName
    THEN dispOp'.why # "ignored"
    ELSE /\ dispOp'.why = "ignored"
         /\ posted' = NoPost
         /\ UNCHANGED <<dPc, dFrom, rpcVars>>
C31_PostStep ==
  /\ (callIn'[1] = "message" /\ posted' # NoPost) => posted'.to = callIn'[2]
  /\ \A k \in Calls :
       /\ (callIn'[1] = "message" /\ dPc[k] = "none" /\ dPc'[k] # "none")
            => dFrom'[k] = callIn'[2]
       /\ (dPc[k] # "none" /\ dPc'[k] # "none") => dFrom'[k] = dFrom[k]
       /\ (dPc[k] # "none" /\ dPc'[k] = "none" /\ posted' # NoPost)
            => posted'.to = dFrom[k]
C31_Addressing == [](C31_Named) /\ [][C31_HandleStep /\ C31_PostStep]_vars
\* Node "a" has answered, when the handler ended, a request that "c" sent to "all".
C31_Witness ==
  /\ busName = "a"
  /\ dispOp.op = "end"
  /\ posted.to = "c"
  /\ Len(posted.frames) = 1
  /\ posted.frames[1].type = "result"

\* C32: the count of a Counter is never negative; a decrease by more than the
\* count sets it to 0 and raises no error; a wait obtained while the count is
\* above 0 is pending until the count next reaches 0 and resolves with that step;
\* a wait obtained while the count is 0 is resolved at once.
C32_DecreaseStep ==
  (cOp'.op = "decrease" /\ cOp'.i > cCount) => (cCount' = 0 /\ ~cOp'.threw)
C32_WaitStep ==
  \A w \in Waiters :
    /\ (cOp'.op = "wait" /\ cOp'.i = w)
         => cWaits'[w] = IF cCount > 0 THEN "pending" ELSE "resolved"
    /\ cWaits[w] = "pending"
         => cWaits'[w] = IF cCount' = 0 THEN "resolved" ELSE "pending"
C32_CounterContract ==
  [](cCount >= 0) /\ [][C32_DecreaseStep /\ C32_WaitStep]_vars

\* C33: while the channel is aborted its queue is empty and no next() of the
\* consumer is left pending; a push on an aborted channel returns false and
\* queues nothing; abort fails the next() that is pending with ChannelAbortError.
C33_WhileAborted ==
  chAborted => (chArray = <<>> /\ chPromise.state # "pending")
C33_PushStep ==
  (chAborted /\ chOp'.op = "push") => (chOp'.ret = "false" /\ chArray' = chArray)
C33_AbortStep ==
  (chOp'.op = "abort" /\ chPromise.state = "pending")
    => chPromise' = [state |-> "rejected", val |-> ChannelAbortError]
C33_AbortedChannel ==
  [](C33_WhileAborted) /\ [][C33_PushStep /\ C33_AbortStep]_vars

\* C34: whatever the order of the put that grants a queued request, the abort of
\* a scheduler and the resumption of the waiting task, once every limitedRun has
\* ended no token is outstanding: the gate's counter is 0, so its wait() is
\* resolved, and every token is idle again.
C34_AllEnded == \A t \in Tasks : lrPc[t] = "idle"
C34_TokensReleased ==
  C34_AllEnded => (limitedCount = 0 /\ held = {} /\ Len(idle) = maxTokens)

\* C35: a task suspended in a race wait is resumed with ok=true only if the wait
\* was resolved by its wrapped future being fulfilled, and then the result it is
\* resumed with is the future's value; an abort followed by a resume before the
\* task continues does not resume it with ok=true.
C35_ResumedByFuture ==
  [][\A t \in Tasks :
       (TaskWake(t) /\ tArg'[t].ok) =>
         (tRace[t].src = "future" /\ ~Truthy(tRace[t].error)
          /\ tArg'[t].result = tRace[t].result)]_vars

\* C36: on the HTTP transport a request that passed checkIfAvailable never has
\* its get() fail with "too many queued", so no request is answered with a
\* JSON-RPC error because of the gate: a request the gate cannot take is
\* answered with 503 by checkIfAvailable.
C36_PassedIsAccepted ==
  /\ ~(gateOp.op = "get" /\ gateOp.ret = "too many queued")
  /\ \A h \in HttpReqs : lrPc[h] # "throw"

\* get() would throw "too many queued": no token is idle and the queue is full.
C37_GetWouldThrow == Len(idle) = 0 /\ ~(Len(queue) + 1 <= maxQueued)

\* C37: for every maxTokens and maxQueued, in every state of the gate in which the
\* saturation test available = 0 refuses a request, get() would itself throw
\* "too many queued"; in particular no request is refused while a token is idle.
C37_RefusesOnlySaturated == (available = 0) => C37_GetWouldThrow

\* C38: for every value v other than undefined that the handler of an id-bearing
\* request returns (0, false, "" and null included), the frame the answering peer
\* sends is taken as a response by the requesting peer and the pending future of
\* the request is resolved with v.
C38_FalsyResultDelivered ==
  [][\A k \in RpcReqs :
       (ResultReceive /\ k \in InTable /\ callIn[2] = rpcId[k]) =>
         (/\ dispOp'.type = "response"
          /\ sentNow' = <<>>
          /\ rpcPromise'[k] = [state |-> "resolved", val |-> callIn[3]])]_vars

\* C39: put takes a token only from the caller that holds it. A put of an idle
\* token, of a token of another gate, or of a token its caller has put before and
\* that was handed to the request of another caller, throws "invalid token" and
\* changes nothing in the gate.
C39_PutOnlyByHolder ==
  [][(gateOp'.op = "put" /\ putBy' # putBy /\ ~putBy'.holder) =>
       (/\ gateOp'.ret = "invalid token"
        /\ UNCHANGED <<idle, queue, limitedCount, tokenStatus, held, reqStatus,
                       reqPromise>>)]_vars

\* C40: whenever a request is queued, no token is idle.
C40_QueuedMeansNoIdle == Len(queue) > 0 => Len(idle) = 0

\* A put has handed its token to the head of the queue and another request is
\* still queued.
C40_Witness ==
  /\ Len(queue) > 0
  /\ maxTokens > 0
  /\ gateOp.op = "put" /\ gateOp.ret = "granted"

====
